---------------------------- MODULE Spec2Model ----------------------------

(***************************************************************************)
(* Model of poedit_auto_translator.py: the run control of                  *)
(* PoeditAutoTranslator (start/stop from buttons and global hotkeys, the   *)
(* Tk foreground queue), the background translation_loop, and the          *)
(* clipboard validator wait_for_translation_result.                        *)
(*                                                                         *)
(* Texts are sequences of one-character strings, so that strip() and       *)
(* replace() are computed as Python computes them.  The two external       *)
(* applications are the environment: a copy chord puts some text of the    *)
(* application on the clipboard or leaves the clipboard as it was.         *)
(***************************************************************************)
EXTENDS Naturals, Sequences, FiniteSets, TLC

(***************************************************************************)
(* Bounds of the model.                                                    *)
(***************************************************************************)
\* background threads that may be alive at once
MaxThreads == 2
\* callbacks queued for the foreground plus threads that will queue one
MaxQueue == 2
\* largest check_timeout_count the configurations use
MaxChecks == 4
\* longest source text of the newline round trip
MaxLen == 4

Threads == 1..MaxThreads

(***************************************************************************)
(* Text helpers (Python str).                                              *)
(***************************************************************************)
E == <<>>

\* str.isspace() of one character
IsWs(c) == c \in {" ", "\n", "\r", "\t"}

RECURSIVE LStrip(_)
LStrip(s) == IF s # E /\ IsWs(Head(s)) THEN LStrip(Tail(s)) ELSE s

RECURSIVE RStrip(_)
RStrip(s) ==
  IF s # E /\ IsWs(s[Len(s)]) THEN RStrip(SubSeq(s, 1, Len(s) - 1)) ELSE s

\* str.strip()
Strip(s) == RStrip(LStrip(s))

\* "text and not text.isspace()" is the negation of this
IsBlank(s) == Strip(s) = E

StartsWith(s, pat) ==
  /\ Len(pat) <= Len(s)
  /\ SubSeq(s, 1, Len(pat)) = pat

RECURSIVE Contains(_, _)
\* pat in s
Contains(s, pat) ==
  IF Len(s) < Len(pat) THEN FALSE
  ELSE StartsWith(s, pat) \/ Contains(Tail(s), pat)

RECURSIVE Replace(_, _, _)
\* s.replace(pat, rep), pat non-empty: leftmost, non-overlapping
Replace(s, pat, rep) ==
  IF s = E THEN E
  ELSE IF StartsWith(s, pat)
       THEN rep \o Replace(SubSeq(s, Len(pat) + 1, Len(s)), pat, rep)
       ELSE <<Head(s)>> \o Replace(Tail(s), pat, rep)

\* the placeholder '__NL_114514__'
NL_TOKEN == <<"_", "_", "N", "L", "_", "1", "1", "4", "5", "1", "4", "_", "_">>
LF == <<"\n">>
CR == <<"\r">>
CRLF == <<"\r", "\n">>

\* EncodeNewlines without the replacement of a lone carriage return
EncodeNewlines_keepCR(convert, text) ==
  IF convert
  THEN Replace(Replace(text, CRLF, LF), LF, NL_TOKEN)
  ELSE text

\* paste_to_translation_service: the text that leaves the process
EncodeNewlines(convert, text) ==
  IF convert
  THEN Replace(Replace(Replace(text, CRLF, LF), CR, LF), LF, NL_TOKEN)
  ELSE text

\* wait_for_translation_result: the text handed back to the loop
DecodeNewlines(convert, text) ==
  IF convert /\ Contains(text, NL_TOKEN)
  THEN Replace(Replace(Replace(text, NL_TOKEN, LF), CRLF, LF), CR, LF)
  ELSE text

\* ClipboardMonitor.get_clipboard_content
get_clipboard_content(clip) == Strip(clip)

(***************************************************************************)
(* State.                                                                  *)
(***************************************************************************)
VARIABLES
  \* configuration (tk variables and self.coordinates)
  coordinates, copy_method, use_scroll_gesture, skip_translated,
  check_translation_consistency, check_timeout_count, convert_newlines,
  \* the external applications
  poedit_texts, service_texts, scripted, record, faulty, src_feed,
  \* PoeditAutoTranslator run state, shared by all threads
  is_running, start_button, stop_button, status, same_source_count,
  last_source_text, last_translated_text, clipboard, fgQueue,
  \* one translation_loop thread per slot
  pc, source_text, translated_text, check_count,
  \* history of the run, read by the properties only
  reason, iter, obs_run, obs_prev, dispatch_count, stop_requested,
  samples, stop_seen,
  \* the keyboard hook: the two combinations as setup_hotkey_listener read
  \* them (their '+'-separated parts), is_binding_key, and the last event
  \* the handler got with the function it called for it
  start_hotkey, stop_hotkey, is_binding_key, key_event, signal,
  \* the three delays of the settings, and the persisted configuration: the
  \* top-level keys the file has, and whether load_config has read it
  timing, config_file,
  \* the rebinding of a hotkey: the combinations as the installed handler
  \* holds them (start_combo, stop_combo of setup_hotkey_listener), whether
  \* self.hotkey_hook and self._binding_hook are installed, the role being
  \* bound, the root.after(100, ...) callbacks not yet run, and the key event
  \* that completed the last rebinding of each role
  start_combo, stop_combo, hotkey_hook, binding_hook, binding_key_type,
  timers, captured

settingVars == <<coordinates, copy_method, use_scroll_gesture,
                 skip_translated, check_translation_consistency,
                 check_timeout_count, convert_newlines, timing>>
hookVars == <<start_hotkey, stop_hotkey, is_binding_key, key_event, signal>>
\* what no step of the run control and of the loop changes
bindVars == <<start_combo, stop_combo, hotkey_hook, binding_hook,
              binding_key_type, timers, captured>>
cfgVars == <<settingVars, hookVars, bindVars>>
envVars == <<poedit_texts, service_texts, scripted, record, faulty,
             config_file>>
\* the two buttons and the last message of start/stop shown to the operator
buttonVars == <<start_button, stop_button, status>>
counterVars == <<same_source_count, last_source_text>>
localVars == <<source_text, translated_text, check_count>>
histVars == <<reason, iter, obs_run, obs_prev, dispatch_count, samples,
              stop_seen>>
vars == <<cfgVars, envVars, src_feed, is_running, buttonVars, counterVars,
          last_translated_text, clipboard, fgQueue, pc, localVars, histVars,
          stop_requested>>

CoordKeys == {"poedit_source", "poedit_target", "service_source",
              "service_copy_button", "service_result_box",
              "scroll_gesture_position"}

\* required_keys without the test of use_scroll_gesture
required_keys_noGesture ==
  {"poedit_source", "poedit_target", "service_source"}
    \cup (IF copy_method \in {1, 2, 3} THEN {"service_result_box"}
          ELSE {"service_copy_button"})

\* start_translation: the coordinates the active configuration needs
required_keys ==
  {"poedit_source", "poedit_target", "service_source"}
    \cup (IF copy_method \in {1, 2, 3} THEN {"service_result_box"}
          ELSE {"service_copy_button"})
    \cup (IF use_scroll_gesture THEN {"scroll_gesture_position"} ELSE {})

NoIter == [tgt |-> 0, disp |-> 0, write |-> 0, nav |-> 0]

ActiveThreads == {t \in Threads : pc[t] # "idle"}
PendingStarts == Len(SelectSeq(fgQueue, LAMBDA c : c = "start"))
\* a start that is triggered now will find a thread slot when it is handled
SlotLeft == Cardinality(ActiveThreads) + PendingStarts < MaxThreads
\* every live thread queues one stop_translation when it ends
QueueLeft == Len(fgQueue) + Cardinality(ActiveThreads) < MaxQueue
FreeSlot ==
  CHOOSE t \in Threads :
    pc[t] = "idle" /\ \A u \in Threads : pc[u] = "idle" => t <= u

(***************************************************************************)
(* Foreground handlers.                                                    *)
(***************************************************************************)
\* threading.Thread(target=self.translation_loop).start()
SpawnLoop ==
  /\ pc' = [pc EXCEPT ![FreeSlot] = "L_while"]

\* start_translation, run on the foreground context
start_translation ==
  IF \E k \in required_keys : ~coordinates[k]
  THEN \* messagebox.showerror; return
       /\ status' = "error"
       /\ UNCHANGED <<is_running, start_button, stop_button, counterVars, pc>>
  ELSE /\ is_running' = TRUE
       /\ start_button' = "disabled"
       /\ stop_button' = "normal"
       /\ status' = "started"
       /\ same_source_count' = 0
       /\ last_source_text' = E
       /\ SpawnLoop

\* stop_translation, run on the foreground context
stop_translation ==
  /\ is_running' = FALSE
  /\ start_button' = "normal"
  /\ stop_button' = "disabled"
  /\ status' = "stopped"

\* StartButton that also forgets the last translation written
StartButton_clearLast ==
  /\ start_button = "normal"
  /\ SlotLeft
  /\ QueueLeft
  /\ start_translation
  /\ stop_requested' = FALSE
  /\ last_translated_text' = E
  /\ UNCHANGED <<cfgVars, envVars, src_feed, clipboard, fgQueue, localVars,
                 histVars>>

\* the start button's command
StartButton ==
  /\ start_button = "normal"
  /\ SlotLeft
  /\ QueueLeft
  /\ start_translation
  /\ stop_requested' = FALSE
  /\ UNCHANGED <<cfgVars, envVars, src_feed, last_translated_text, clipboard,
                 fgQueue, localVars, histVars>>

\* the stop button's command
StopButton ==
  /\ stop_button = "normal"
  /\ stop_translation
  /\ stop_requested' = (stop_requested \/ is_running)
  /\ UNCHANGED <<cfgVars, envVars, src_feed, counterVars,
                 last_translated_text, clipboard, fgQueue, pc, localVars,
                 histVars>>

\* trigger_start_translation, on the keyboard hook's thread
trigger_start_translation ==
  /\ ~is_running
  /\ QueueLeft
  /\ SlotLeft
  /\ fgQueue' = Append(fgQueue, "start")
  /\ stop_requested' = FALSE
  /\ UNCHANGED <<cfgVars, envVars, src_feed, is_running, buttonVars,
                 counterVars, last_translated_text, clipboard, pc, localVars,
                 histVars>>

\* emergency_stop, on the keyboard hook's thread
emergency_stop ==
  /\ is_running
  /\ QueueLeft
  /\ is_running' = FALSE
  /\ fgQueue' = Append(fgQueue, "stop")
  /\ stop_requested' = TRUE
  /\ UNCHANGED <<cfgVars, envVars, src_feed, buttonVars, counterVars,
                 last_translated_text, clipboard, pc, localVars, histVars>>

\* the Tk main loop runs the oldest root.after(0, ...) callback
FgStart ==
  /\ fgQueue # <<>>
  /\ Head(fgQueue) = "start"
  /\ fgQueue' = Tail(fgQueue)
  /\ start_translation
  /\ UNCHANGED <<cfgVars, envVars, src_feed, last_translated_text, clipboard,
                 localVars, histVars, stop_requested>>

FgStop ==
  /\ fgQueue # <<>>
  /\ Head(fgQueue) = "stop"
  /\ fgQueue' = Tail(fgQueue)
  /\ stop_translation
  /\ UNCHANGED <<cfgVars, envVars, src_feed, counterVars,
                 last_translated_text, clipboard, pc, localVars, histVars,
                 stop_requested>>

(***************************************************************************)
(* The environment: what a copy chord leaves on the clipboard.             *)
(***************************************************************************)
\* wait_for_translation_result: the text compared against the original
comparison_text(sample) ==
  IF convert_newlines /\ Contains(sample, NL_TOKEN)
  THEN Replace(sample, NL_TOKEN, LF)
  ELSE sample

\* Classify without the comparison against last_translated_text
Classify_noStale(sample, original, last) ==
  LET c == comparison_text(sample) IN
  IF c = Strip(original) THEN "Echo"
  ELSE IF ~IsBlank(c) /\ Strip(c) # Strip(original)
       THEN "Fresh"
       ELSE "Blank"

\* wait_for_translation_result: the branch the polling loop takes for a sample
Classify(sample, original, last) ==
  LET c == comparison_text(sample) IN
  IF c = Strip(original) THEN "Echo"
  ELSE IF ~IsBlank(c) /\ Strip(c) # Strip(original)
       THEN IF last # E /\ Strip(c) = Strip(last) THEN "Stale" ELSE "Fresh"
       ELSE "Blank"

\* Ctrl+A, Ctrl+C in Poedit's source field: the text of the field, or the
\* clipboard as it was when nothing got copied.  A scripted editor delivers
\* src_feed text by text and then stays on poedit_texts.
SourceOutcomes ==
  IF src_feed # <<>> THEN {Head(src_feed)}
  ELSE IF scripted THEN poedit_texts
  ELSE poedit_texts \cup {clipboard}

\* Ctrl+A, Ctrl+C in Poedit's target field
TargetOutcomes == poedit_texts \cup {clipboard}

\* the configured copy action on the translation service, the clipboard
\* holding clip before it.  A scripted service answers every copy with a
\* text the validator takes as new.
ServiceOutcomes(t, clip) ==
  IF scripted
  THEN {v \in service_texts :
          Classify(Strip(v), source_text[t], last_translated_text) = "Fresh"}
  ELSE service_texts \cup {clip}

(***************************************************************************)
(* translation_loop, one action per stretch between two blocking calls.    *)
(***************************************************************************)
Exit(t, why) ==
  /\ pc' = [pc EXCEPT ![t] = "L_finally"]
  /\ reason' = [reason EXCEPT ![t] = why]

\* while self.is_running
Loop_while(t) ==
  /\ pc[t] = "L_while"
  /\ IF is_running
     THEN /\ pc' = [pc EXCEPT ![t] = "L_source"]
          /\ iter' = [iter EXCEPT ![t] = NoIter]
          /\ UNCHANGED reason
     ELSE /\ Exit(t, "Stopped")
          /\ UNCHANGED iter
  /\ UNCHANGED <<cfgVars, envVars, src_feed, is_running, buttonVars,
                 counterVars, last_translated_text, clipboard, fgQueue,
                 localVars, obs_run, obs_prev, dispatch_count, samples,
                 stop_seen, stop_requested>>

\* Loop_source without the test for an empty source text
Loop_source_noEmptyTest(t) ==
  /\ pc[t] = "L_source"
  /\ \E v \in SourceOutcomes :
       LET text == get_clipboard_content(v) IN
       /\ clipboard' = v
       /\ src_feed' = IF src_feed # <<>> THEN Tail(src_feed) ELSE src_feed
       /\ IF ~is_running
          THEN /\ Exit(t, "Stopped")
               /\ UNCHANGED <<source_text, obs_run, obs_prev>>
          ELSE /\ pc' = [pc EXCEPT ![t] = "L_compare"]
               /\ source_text' = [source_text EXCEPT ![t] = text]
               /\ UNCHANGED <<reason, obs_run, obs_prev>>
  /\ UNCHANGED <<cfgVars, envVars, is_running, buttonVars, counterVars,
                 last_translated_text, fgQueue, translated_text, check_count,
                 iter, dispatch_count, samples, stop_seen, stop_requested>>

\* get_poedit_source_text and the test of its result.  When the input
\* driver raises, get_poedit_source_text returns "" with the clipboard as it
\* was, and the loop takes that for the end of the catalog.
Loop_source(t) ==
  /\ pc[t] = "L_source"
  /\ \/ /\ faulty
        /\ Exit(t, IF ~is_running THEN "Stopped" ELSE "SourceFault")
        /\ UNCHANGED <<clipboard, src_feed, source_text, obs_run, obs_prev>>
     \/ \E v \in SourceOutcomes :
          LET text == get_clipboard_content(v) IN
          /\ clipboard' = v
          /\ src_feed' = IF src_feed # <<>> THEN Tail(src_feed) ELSE src_feed
          /\ IF text = E \/ ~is_running
             THEN /\ Exit(t, IF ~is_running THEN "Stopped" ELSE "NoMoreContent")
                  /\ UNCHANGED <<source_text, obs_run, obs_prev>>
             ELSE /\ pc' = [pc EXCEPT ![t] = "L_compare"]
                  /\ source_text' = [source_text EXCEPT ![t] = text]
                  /\ obs_run' = [obs_run EXCEPT ![t] =
                                   IF ~record THEN @
                                   ELSE IF text = obs_prev[t]
                                   THEN IF @ < 4 THEN @ + 1 ELSE @
                                   ELSE 1]
                  /\ obs_prev' = [obs_prev EXCEPT ![t] =
                                    IF record THEN text ELSE @]
                  /\ UNCHANGED reason
  /\ UNCHANGED <<cfgVars, envVars, is_running, buttonVars, counterVars,
                 last_translated_text, fgQueue, translated_text, check_count,
                 iter, dispatch_count, samples, stop_seen, stop_requested>>

\* if source_text == self.last_source_text: ... += 1 / else: ... = 0
Loop_compare(t) ==
  /\ pc[t] = "L_compare"
  /\ IF source_text[t] = last_source_text
     THEN /\ same_source_count' = same_source_count + 1
          /\ pc' = [pc EXCEPT ![t] = "L_check3"]
          /\ UNCHANGED last_source_text
     ELSE /\ same_source_count' = 0
          /\ last_source_text' = source_text[t]
          /\ pc' = [pc EXCEPT ![t] = "L_target"]
  /\ UNCHANGED <<cfgVars, envVars, src_feed, is_running, buttonVars,
                 last_translated_text, clipboard, fgQueue, localVars,
                 histVars, stop_requested>>

\* if self.same_source_count >= 3: break; self.last_source_text = source_text
Loop_check3(t) ==
  /\ pc[t] = "L_check3"
  /\ IF same_source_count >= 3
     THEN /\ Exit(t, "NaturalCompletion")
          /\ UNCHANGED last_source_text
     ELSE /\ last_source_text' = source_text[t]
          /\ pc' = [pc EXCEPT ![t] = "L_target"]
          /\ UNCHANGED reason
  /\ UNCHANGED <<cfgVars, envVars, src_feed, is_running, buttonVars,
                 same_source_count, last_translated_text, clipboard, fgQueue,
                 localVars, iter, obs_run, obs_prev, dispatch_count, samples,
                 stop_seen, stop_requested>>

\* Loop_target without the skip test
Loop_target_noSkip(t) ==
  /\ pc[t] = "L_target"
  /\ IF ~is_running
     THEN /\ Exit(t, "Stopped")
          /\ UNCHANGED <<clipboard, iter>>
     ELSE \E v \in TargetOutcomes :
            /\ clipboard' = v
            /\ iter' = [iter EXCEPT ![t].tgt = @ + 1]
            /\ pc' = [pc EXCEPT ![t] = "L_dispatch"]
            /\ UNCHANGED reason
  /\ UNCHANGED <<cfgVars, envVars, src_feed, is_running, buttonVars,
                 counterVars, last_translated_text, fgQueue, localVars,
                 obs_run, obs_prev, dispatch_count, samples, stop_seen,
                 stop_requested>>

\* the stop check, get_poedit_target_text and the skip test
Loop_target(t) ==
  /\ pc[t] = "L_target"
  /\ IF ~is_running
     THEN /\ Exit(t, "Stopped")
          /\ UNCHANGED <<clipboard, iter>>
     ELSE \E v \in TargetOutcomes :
            LET target_text == get_clipboard_content(v) IN
            /\ clipboard' = v
            /\ iter' = [iter EXCEPT ![t].tgt = @ + 1]
            /\ pc' = [pc EXCEPT ![t] =
                        IF skip_translated /\ target_text # E
                             /\ Strip(target_text) # E
                        THEN "L_next" ELSE "L_dispatch"]
            /\ UNCHANGED reason
  /\ UNCHANGED <<cfgVars, envVars, src_feed, is_running, buttonVars,
                 counterVars, last_translated_text, fgQueue, localVars,
                 obs_run, obs_prev, dispatch_count, samples, stop_seen,
                 stop_requested>>

\* the stop check and paste_to_translation_service
Loop_dispatch(t) ==
  /\ pc[t] = "L_dispatch"
  /\ IF ~is_running
     THEN /\ Exit(t, "Stopped")
          /\ UNCHANGED <<clipboard, iter, dispatch_count>>
     ELSE /\ clipboard' = EncodeNewlines(convert_newlines, source_text[t])
          /\ iter' = [iter EXCEPT ![t].disp = @ + 1]
          /\ dispatch_count' = IF scripted THEN dispatch_count + 1
                               ELSE dispatch_count
          /\ pc' = [pc EXCEPT ![t] = "V_settle"]
          /\ UNCHANGED reason
  /\ UNCHANGED <<cfgVars, envVars, src_feed, is_running, buttonVars,
                 counterVars, last_translated_text, fgQueue, localVars,
                 obs_run, obs_prev, samples, stop_seen, stop_requested>>

(***************************************************************************)
(* wait_for_translation_result.                                            *)
(***************************************************************************)
Sampled(t, text) ==
  samples' = [samples EXCEPT ![t] = IF record THEN Append(@, text) ELSE @]

\* Validator_settle that enters the polling loop whatever the setting
Validator_settle_alwaysPoll(t) ==
  /\ pc[t] = "V_settle"
  /\ IF ~is_running
     THEN /\ Exit(t, "Stopped")
          /\ UNCHANGED <<clipboard, translated_text, check_count, samples>>
     ELSE \E v \in ServiceOutcomes(t, source_text[t]) :
            /\ clipboard' = v
            /\ translated_text' =
                 [translated_text EXCEPT ![t] = get_clipboard_content(v)]
            /\ check_count' = [check_count EXCEPT ![t] = 0]
            /\ Sampled(t, get_clipboard_content(v))
            /\ pc' = [pc EXCEPT ![t] = "V_poll"]
            /\ UNCHANGED reason
  /\ UNCHANGED <<cfgVars, envVars, src_feed, is_running, buttonVars,
                 counterVars, last_translated_text, fgQueue, source_text,
                 iter, obs_run, obs_prev, dispatch_count, stop_seen,
                 stop_requested>>

\* Validator_settle without pyperclip.copy(original_text): the copy action
\* finds the clipboard as the dispatch left it
Validator_settle_noBaseline(t) ==
  /\ pc[t] = "V_settle"
  /\ IF ~is_running
     THEN /\ Exit(t, "Stopped")
          /\ UNCHANGED <<clipboard, translated_text, check_count, samples>>
     ELSE \E v \in ServiceOutcomes(t, clipboard) :
            /\ clipboard' = v
            /\ translated_text' =
                 [translated_text EXCEPT ![t] = get_clipboard_content(v)]
            /\ check_count' = [check_count EXCEPT ![t] = 0]
            /\ Sampled(t, get_clipboard_content(v))
            /\ pc' = [pc EXCEPT ![t] =
                        IF check_translation_consistency THEN "V_poll"
                        ELSE "V_finish"]
            /\ UNCHANGED reason
  /\ UNCHANGED <<cfgVars, envVars, src_feed, is_running, buttonVars,
                 counterVars, last_translated_text, fgQueue, source_text,
                 iter, obs_run, obs_prev, dispatch_count, stop_seen,
                 stop_requested>>

\* the stop check of the loop, then the settle delay, the baseline
\* pyperclip.copy(original_text), the first copy action and its sample
Validator_settle(t) ==
  /\ pc[t] = "V_settle"
  /\ IF ~is_running
     THEN /\ Exit(t, "Stopped")
          /\ UNCHANGED <<clipboard, translated_text, check_count, samples>>
     ELSE \E v \in ServiceOutcomes(t, source_text[t]) :
            /\ clipboard' = v
            /\ translated_text' =
                 [translated_text EXCEPT ![t] = get_clipboard_content(v)]
            /\ check_count' = [check_count EXCEPT ![t] = 0]
            /\ Sampled(t, get_clipboard_content(v))
            /\ pc' = [pc EXCEPT ![t] =
                        IF check_translation_consistency THEN "V_poll"
                        ELSE "V_finish"]
            /\ UNCHANGED reason
  /\ UNCHANGED <<cfgVars, envVars, src_feed, is_running, buttonVars,
                 counterVars, last_translated_text, fgQueue, source_text,
                 iter, obs_run, obs_prev, dispatch_count, stop_seen,
                 stop_requested>>

\* Validator_poll without the break on a new result
Validator_poll_noBreak(t) ==
  /\ pc[t] = "V_poll"
  /\ IF check_count[t] < check_timeout_count /\ is_running
     THEN /\ pc' = [pc EXCEPT ![t] = "V_retry"]
          /\ UNCHANGED stop_seen
     ELSE /\ pc' = [pc EXCEPT ![t] = "V_finish"]
          /\ stop_seen' = [stop_seen EXCEPT ![t] =
                             check_count[t] < check_timeout_count]
  /\ UNCHANGED <<cfgVars, envVars, src_feed, is_running, buttonVars,
                 counterVars, last_translated_text, clipboard, fgQueue,
                 localVars, reason, iter, obs_run, obs_prev, dispatch_count,
                 samples, stop_requested>>

\* Validator_poll with check_count <= max_checks as the loop test
Validator_poll_oneMore(t) ==
  /\ pc[t] = "V_poll"
  /\ IF check_count[t] <= check_timeout_count /\ is_running
     THEN /\ pc' = [pc EXCEPT ![t] =
                      IF Classify(translated_text[t], source_text[t],
                                  last_translated_text) = "Fresh"
                      THEN "V_finish" ELSE "V_retry"]
          /\ UNCHANGED stop_seen
     ELSE /\ pc' = [pc EXCEPT ![t] = "V_finish"]
          /\ stop_seen' = [stop_seen EXCEPT ![t] =
                             check_count[t] < check_timeout_count]
  /\ UNCHANGED <<cfgVars, envVars, src_feed, is_running, buttonVars,
                 counterVars, last_translated_text, clipboard, fgQueue,
                 localVars, reason, iter, obs_run, obs_prev, dispatch_count,
                 samples, stop_requested>>

\* while check_count < max_checks and self.is_running: classify the sample
Validator_poll(t) ==
  /\ pc[t] = "V_poll"
  /\ IF check_count[t] < check_timeout_count /\ is_running
     THEN /\ pc' = [pc EXCEPT ![t] =
                      IF Classify(translated_text[t], source_text[t],
                                  last_translated_text) = "Fresh"
                      THEN "V_finish" ELSE "V_retry"]
          /\ UNCHANGED stop_seen
     ELSE /\ pc' = [pc EXCEPT ![t] = "V_finish"]
          /\ stop_seen' = [stop_seen EXCEPT ![t] =
                             check_count[t] < check_timeout_count]
  /\ UNCHANGED <<cfgVars, envVars, src_feed, is_running, buttonVars,
                 counterVars, last_translated_text, clipboard, fgQueue,
                 localVars, reason, iter, obs_run, obs_prev, dispatch_count,
                 samples, stop_requested>>

\* check_count += 1, the poll interval, the copy action again and its sample
Validator_retry(t) ==
  /\ pc[t] = "V_retry"
  /\ \E v \in ServiceOutcomes(t, clipboard) :
       /\ clipboard' = v
       /\ translated_text' =
            [translated_text EXCEPT ![t] = get_clipboard_content(v)]
       /\ Sampled(t, get_clipboard_content(v))
  /\ check_count' = [check_count EXCEPT ![t] = @ + 1]
  /\ pc' = [pc EXCEPT ![t] = "V_poll"]
  /\ UNCHANGED <<cfgVars, envVars, src_feed, is_running, buttonVars,
                 counterVars, last_translated_text, fgQueue, source_text,
                 reason, iter, obs_run, obs_prev, dispatch_count, stop_seen,
                 stop_requested>>

\* ValidatorResult that hands back nothing when the sample is the original
ValidatorResult_rejectEcho(t) ==
  LET decoded == DecodeNewlines(convert_newlines, translated_text[t])
  IN  IF ~IsBlank(decoded) /\ decoded # Strip(source_text[t])
      THEN decoded ELSE E

\* the placeholder substitution back and the value returned: the sample if
\* it is not blank, "" otherwise
ValidatorResult(t) ==
  LET decoded == DecodeNewlines(convert_newlines, translated_text[t])
  IN  IF ~IsBlank(decoded) THEN decoded ELSE E

\* Validator_finish that returns without the gesture
Validator_finish_noGesture(t) ==
  /\ pc[t] \in {"V_finish", "V_return"}
  /\ translated_text' = [translated_text EXCEPT ![t] = ValidatorResult(t)]
  /\ pc' = [pc EXCEPT ![t] = "L_result"]
  /\ source_text' = [source_text EXCEPT ![t] = E]
  /\ check_count' = [check_count EXCEPT ![t] = 0]
  /\ samples' = [samples EXCEPT ![t] = <<>>]
  /\ stop_seen' = [stop_seen EXCEPT ![t] = FALSE]
  /\ UNCHANGED <<cfgVars, envVars, src_feed, is_running, buttonVars,
                 counterVars, last_translated_text, clipboard, fgQueue,
                 reason, iter, obs_run, obs_prev, dispatch_count,
                 stop_requested>>

\* the end of wait_for_translation_result: perform_scroll_to_top_gesture if
\* the gesture is configured (the thread is at "V_return" once the drag is
\* made), then the substitution back and the return
Validator_finish(t) ==
  /\ pc[t] \in {"V_finish", "V_return"}
  /\ IF /\ pc[t] = "V_finish"
        /\ use_scroll_gesture
        /\ coordinates["scroll_gesture_position"]
     THEN /\ pc' = [pc EXCEPT ![t] = "V_return"]
          /\ UNCHANGED <<localVars, samples, stop_seen>>
     ELSE /\ translated_text' =
               [translated_text EXCEPT ![t] = ValidatorResult(t)]
          /\ pc' = [pc EXCEPT ![t] = "L_result"]
          \* original_text, check_count and the history of the validation
          \* are dead
          /\ source_text' = [source_text EXCEPT ![t] = E]
          /\ check_count' = [check_count EXCEPT ![t] = 0]
          /\ samples' = [samples EXCEPT ![t] = <<>>]
          /\ stop_seen' = [stop_seen EXCEPT ![t] = FALSE]
  /\ UNCHANGED <<cfgVars, envVars, src_feed, is_running, buttonVars,
                 counterVars, last_translated_text, clipboard, fgQueue,
                 reason, iter, obs_run, obs_prev, dispatch_count,
                 stop_requested>>

(***************************************************************************)
(* translation_loop, after the validator has returned.                     *)
(***************************************************************************)
\* Loop_result that goes on to the paste with an empty result too
Loop_result_pasteEmpty(t) ==
  /\ pc[t] = "L_result"
  /\ IF ~is_running
     THEN Exit(t, "Stopped")
     ELSE /\ pc' = [pc EXCEPT ![t] = "L_paste"]
          /\ UNCHANGED reason
  /\ UNCHANGED <<cfgVars, envVars, src_feed, is_running, buttonVars,
                 counterVars, last_translated_text, clipboard, fgQueue,
                 localVars, iter, obs_run, obs_prev, dispatch_count, samples,
                 stop_seen, stop_requested>>

\* Loop_result that goes back to the while test on an empty result
Loop_result_noAdvance(t) ==
  /\ pc[t] = "L_result"
  /\ IF translated_text[t] = E \/ ~is_running
     THEN IF ~is_running
          THEN Exit(t, "Stopped")
          ELSE /\ pc' = [pc EXCEPT ![t] = "L_while"]
               /\ UNCHANGED reason
     ELSE /\ pc' = [pc EXCEPT ![t] = "L_paste"]
          /\ UNCHANGED reason
  /\ UNCHANGED <<cfgVars, envVars, src_feed, is_running, buttonVars,
                 counterVars, last_translated_text, clipboard, fgQueue,
                 localVars, iter, obs_run, obs_prev, dispatch_count, samples,
                 stop_seen, stop_requested>>

\* if not translated_text or not self.is_running
Loop_result(t) ==
  /\ pc[t] = "L_result"
  /\ IF translated_text[t] = E \/ ~is_running
     THEN IF ~is_running
          THEN Exit(t, "Stopped")
          ELSE /\ pc' = [pc EXCEPT ![t] = "L_next"]
               /\ UNCHANGED reason
     ELSE /\ pc' = [pc EXCEPT ![t] = "L_paste"]
          /\ UNCHANGED reason
  /\ UNCHANGED <<cfgVars, envVars, src_feed, is_running, buttonVars,
                 counterVars, last_translated_text, clipboard, fgQueue,
                 localVars, iter, obs_run, obs_prev, dispatch_count, samples,
                 stop_seen, stop_requested>>

\* the stop check, paste_to_poedit_target and the record of the translation
Loop_paste(t) ==
  /\ pc[t] = "L_paste"
  /\ IF ~is_running
     THEN /\ Exit(t, "Stopped")
          /\ UNCHANGED <<clipboard, last_translated_text, iter>>
     ELSE /\ clipboard' = translated_text[t]
          /\ last_translated_text' = translated_text[t]
          /\ iter' = [iter EXCEPT ![t].write = @ + 1]
          /\ pc' = [pc EXCEPT ![t] = "L_next"]
          /\ UNCHANGED reason
  \* translated_text is dead from here to the next validation
  /\ translated_text' = [translated_text EXCEPT ![t] = E]
  /\ UNCHANGED <<cfgVars, envVars, src_feed, is_running, buttonVars,
                 counterVars, fgQueue, source_text, check_count, obs_run,
                 obs_prev, dispatch_count, samples, stop_seen,
                 stop_requested>>

\* next_translation_item (Ctrl+Down), then back to the while test
Loop_next(t) ==
  /\ pc[t] = "L_next"
  /\ iter' = [iter EXCEPT ![t].nav = @ + 1]
  /\ pc' = [pc EXCEPT ![t] = "L_while"]
  \* source_text is dead from here to the next extraction
  /\ source_text' = [source_text EXCEPT ![t] = E]
  /\ UNCHANGED <<cfgVars, envVars, src_feed, is_running, buttonVars,
                 counterVars, last_translated_text, clipboard, fgQueue,
                 translated_text, check_count, reason, obs_run, obs_prev,
                 dispatch_count, samples, stop_seen, stop_requested>>

\* Loop_finally that queues nothing
Loop_finally_noStop(t) ==
  /\ pc[t] = "L_finally"
  /\ pc' = [pc EXCEPT ![t] = "idle"]
  /\ source_text' = [source_text EXCEPT ![t] = E]
  /\ translated_text' = [translated_text EXCEPT ![t] = E]
  /\ check_count' = [check_count EXCEPT ![t] = 0]
  /\ reason' = [reason EXCEPT ![t] = "none"]
  /\ iter' = [iter EXCEPT ![t] = NoIter]
  /\ obs_run' = [obs_run EXCEPT ![t] = 0]
  /\ obs_prev' = [obs_prev EXCEPT ![t] = E]
  /\ samples' = [samples EXCEPT ![t] = <<>>]
  /\ stop_seen' = [stop_seen EXCEPT ![t] = FALSE]
  /\ UNCHANGED <<cfgVars, envVars, src_feed, is_running, buttonVars,
                 counterVars, last_translated_text, clipboard, fgQueue,
                 dispatch_count, stop_requested>>

\* finally: self.root.after(0, self.stop_translation); the thread ends
Loop_finally(t) ==
  /\ pc[t] = "L_finally"
  /\ fgQueue' = Append(fgQueue, "stop")
  /\ pc' = [pc EXCEPT ![t] = "idle"]
  /\ source_text' = [source_text EXCEPT ![t] = E]
  /\ translated_text' = [translated_text EXCEPT ![t] = E]
  /\ check_count' = [check_count EXCEPT ![t] = 0]
  /\ reason' = [reason EXCEPT ![t] = "none"]
  /\ iter' = [iter EXCEPT ![t] = NoIter]
  /\ obs_run' = [obs_run EXCEPT ![t] = 0]
  /\ obs_prev' = [obs_prev EXCEPT ![t] = E]
  /\ samples' = [samples EXCEPT ![t] = <<>>]
  /\ stop_seen' = [stop_seen EXCEPT ![t] = FALSE]
  /\ UNCHANGED <<cfgVars, envVars, src_feed, is_running, buttonVars,
                 counterVars, last_translated_text, clipboard,
                 dispatch_count, stop_requested>>

(***************************************************************************)
(* Specifications.                                                         *)
(***************************************************************************)
TxtA == <<"a">>
TxtB == <<"b">>
TxtX == <<"x">>
TxtY == <<"y">>

AllSet == [k \in CoordKeys |-> TRUE]

\* the settings as __init__ leaves them
DefaultConfig ==
  [coordinates |-> [k \in CoordKeys |-> FALSE],
   skip_translated |-> TRUE,
   translation_wait_time |-> 3000,
   check_interval |-> 500,
   scroll_gesture_wait_time |-> 500,
   start_hotkey_combination |-> <<"F9">>,
   stop_hotkey_combination |-> <<"F10">>,
   check_translation_consistency |-> TRUE,
   check_timeout_count |-> 20,
   copy_method |-> 0,
   use_scroll_gesture |-> FALSE,
   convert_newlines |-> FALSE]

DefaultTiming ==
  [translation_wait_time |-> DefaultConfig.translation_wait_time,
   check_interval |-> DefaultConfig.check_interval,
   scroll_gesture_wait_time |-> DefaultConfig.scroll_gesture_wait_time]

\* no configuration file is in play
NoConfigFile == [present |-> {}, loaded |-> TRUE]

Modifiers == {"ctrl", "alt", "shift"}
NoEvent == [type |-> "none", name |-> "", held |-> {}]

\* the default combinations F9 and F10, no binding in progress, no key yet
InitHook ==
  /\ start_hotkey = <<"F9">>
  /\ stop_hotkey = <<"F10">>
  /\ is_binding_key = FALSE
  /\ key_event = NoEvent
  /\ signal = "none"

\* no key has completed a rebinding
NoCapture == [start |-> NoEvent, stop |-> NoEvent]

\* setup_hotkey_listener has run on the combinations as they are: its
\* handler is the one hook installed and no callback is waiting
InitListening ==
  /\ start_combo = start_hotkey
  /\ stop_combo = stop_hotkey
  /\ hotkey_hook = TRUE
  /\ binding_hook = FALSE
  /\ binding_key_type = "none"
  /\ timers = <<>>
  /\ captured = NoCapture

\* __init__ has asked for setup_hotkey_listener (line 179) and it has not
\* run yet
InitStartup ==
  /\ start_combo = start_hotkey
  /\ stop_combo = stop_hotkey
  /\ hotkey_hook = FALSE
  /\ binding_hook = FALSE
  /\ binding_key_type = "none"
  /\ timers = <<"setup_hotkey_listener">>
  /\ captured = NoCapture

\* no translation_loop thread exists
InitThreads ==
  /\ pc = [t \in Threads |-> "idle"]
  /\ source_text = [t \in Threads |-> E]
  /\ translated_text = [t \in Threads |-> E]
  /\ check_count = [t \in Threads |-> 0]
  /\ reason = [t \in Threads |-> "none"]
  /\ iter = [t \in Threads |-> NoIter]
  /\ obs_run = [t \in Threads |-> 0]
  /\ obs_prev = [t \in Threads |-> E]
  /\ samples = [t \in Threads |-> <<>>]
  /\ stop_seen = [t \in Threads |-> FALSE]

\* the state after __init__ and load_config, nothing started yet
InitRun ==
  /\ InitThreads
  /\ InitHook
  /\ InitListening
  /\ is_running = FALSE
  /\ start_button = "normal"
  /\ stop_button = "disabled"
  /\ status = "none"
  /\ same_source_count = 0
  /\ last_source_text = E
  /\ last_translated_text = E
  /\ fgQueue = <<>>
  /\ dispatch_count = 0
  /\ stop_requested = FALSE

Init ==
  /\ InitRun
  /\ coordinates = AllSet
  /\ copy_method = 0
  /\ use_scroll_gesture = FALSE
  /\ skip_translated = TRUE
  /\ check_translation_consistency = TRUE
  /\ check_timeout_count = 1
  /\ convert_newlines = FALSE
  /\ poedit_texts = {E, TxtA}
  /\ service_texts = {TxtX}
  /\ scripted = FALSE
  /\ record = FALSE
  /\ faulty = FALSE
  /\ timing = DefaultTiming
  /\ config_file = NoConfigFile
  /\ src_feed = <<>>
  /\ clipboard = E

Control ==
  \/ StartButton
  \/ StopButton
  \/ trigger_start_translation
  \/ emergency_stop

Foreground ==
  \/ FgStart
  \/ FgStop

translation_loop(t) ==
  \/ Loop_while(t)
  \/ Loop_source(t)
  \/ Loop_compare(t)
  \/ Loop_check3(t)
  \/ Loop_target(t)
  \/ Loop_dispatch(t)
  \/ Validator_settle(t)
  \/ Validator_poll(t)
  \/ Validator_retry(t)
  \/ Validator_finish(t)
  \/ Loop_result(t)
  \/ Loop_paste(t)
  \/ Loop_next(t)
  \/ Loop_finally(t)

Next ==
  \/ Control
  \/ Foreground
  \/ \E t \in Threads : translation_loop(t)

Spec == Init /\ [][Next]_vars

\* the Tk main loop keeps running callbacks; every started thread keeps
\* being scheduled.  Buttons and hotkeys are pressed or not.
Fairness ==
  /\ WF_vars(Foreground)
  /\ \A t \in Threads : WF_vars(translation_loop(t))

FairSpec == Init /\ [][Next]_vars /\ Fairness

(***************************************************************************)
(* Run state as the operator sees it.                                      *)
(***************************************************************************)
\* RunState Idle: flag cleared, start enabled, stop disabled
RunIdle ==
  /\ ~is_running
  /\ start_button = "normal"
  /\ stop_button = "disabled"

NoLoop == ActiveThreads = {}

(***************************************************************************)
(* StartSpec: start_translation under every configuration of the           *)
(* coordinates, the copy method and the scroll gesture.  The loop is kept  *)
(* to its first test; the editor offers no text.                           *)
(***************************************************************************)
\* some earlier configuration of copy method and gesture allowed a run
RunWasPossible ==
  /\ coordinates["poedit_source"]
  /\ coordinates["poedit_target"]
  /\ coordinates["service_source"]
  /\ coordinates["service_copy_button"] \/ coordinates["service_result_box"]

\* between two runs: idle, the counters as the last run left them
InitStart ==
  /\ InitThreads
  /\ InitHook
  /\ InitListening
  /\ is_running = FALSE
  /\ start_button = "normal"
  /\ stop_button = "disabled"
  /\ status = "none"
  /\ fgQueue = <<>>
  /\ dispatch_count = 0
  /\ stop_requested = FALSE
  /\ coordinates \in [CoordKeys -> BOOLEAN]
  /\ copy_method \in 0..3
  /\ use_scroll_gesture \in BOOLEAN
  /\ skip_translated = TRUE
  /\ check_translation_consistency = TRUE
  /\ check_timeout_count = 1
  /\ convert_newlines = FALSE
  /\ poedit_texts = {E}
  /\ service_texts = {TxtX}
  /\ scripted = FALSE
  /\ record = FALSE
  /\ faulty = FALSE
  /\ timing = DefaultTiming
  /\ config_file = NoConfigFile
  /\ src_feed = <<>>
  /\ clipboard = E
  /\ last_translated_text = E
  /\ same_source_count \in (IF RunWasPossible THEN {0, 2} ELSE {0})
  /\ last_source_text = IF same_source_count = 0 THEN E ELSE TxtA

NextStart ==
  \/ Control
  \/ Foreground
  \/ \E t \in Threads : Loop_while(t) \/ Loop_source(t) \/ Loop_finally(t)

StartSpec == InitStart /\ [][NextStart]_vars

\* the coordinates the claim lists for the current copy method and gesture
C1_Required ==
  {"poedit_source", "poedit_target", "service_source"}
    \cup (IF copy_method \in {1, 2, 3} THEN {"service_result_box"} ELSE {})
    \cup (IF copy_method = 0 THEN {"service_copy_button"} ELSE {})
    \cup (IF use_scroll_gesture THEN {"scroll_gesture_position"} ELSE {})

C1_Missing == \E k \in C1_Required : ~coordinates[k]

\* a step in which start_translation ran (from the queue, or the button
\* with a new message)
C1_StartHandled ==
  \/ fgQueue # <<>> /\ Head(fgQueue) = "start" /\ fgQueue' = Tail(fgQueue)
  \/ status' \in {"error", "started"} /\ status' # status

\* C1: with a required coordinate unset no step sets the run flag, creates
\* a loop thread or changes same_source_count / last_source_text, and a
\* handled start reports the error; with all required coordinates set a
\* handled start sets the run flag and creates exactly one loop thread.
C1_StartPrecondition ==
  [][ /\ C1_Missing =>
           /\ ~is_running'
           /\ ActiveThreads' \subseteq ActiveThreads
           /\ same_source_count' = same_source_count
           /\ last_source_text' = last_source_text
      /\ (C1_StartHandled /\ C1_Missing) => status' = "error"
      /\ (C1_StartHandled /\ ~C1_Missing) =>
           /\ is_running'
           /\ status' = "started"
           /\ ActiveThreads \subseteq ActiveThreads'
           /\ Cardinality(ActiveThreads') = Cardinality(ActiveThreads) + 1
    ]_vars

\* a start was refused and the counters of the earlier run are still there
C1_Witness ==
  /\ C1_Missing
  /\ status = "error"
  /\ same_source_count = 2
  /\ last_source_text = TxtA
  /\ ~is_running
  /\ ActiveThreads = {}

(***************************************************************************)
(* RunSpec: one run, from the state start_translation leaves, with the     *)
(* per-loop history recorded.  Stop may arrive at any time; nothing        *)
(* starts a second run.                                                    *)
(***************************************************************************)
\* a run is on: the flag, the buttons and the configuration of the run
Running ==
  /\ InitHook
  /\ InitListening
  /\ is_running = TRUE
  /\ start_button = "disabled"
  /\ stop_button = "normal"
  /\ status = "started"
  /\ fgQueue = <<>>
  /\ dispatch_count = 0
  /\ stop_requested = FALSE
  /\ coordinates = AllSet
  /\ copy_method = 0

\* the state right after a successful start_translation
InitStarted ==
  /\ Running
  /\ use_scroll_gesture = FALSE
  /\ convert_newlines = FALSE
  /\ pc = [t \in Threads |-> IF t = 1 THEN "L_while" ELSE "idle"]
  /\ source_text = [t \in Threads |-> E]
  /\ translated_text = [t \in Threads |-> E]
  /\ check_count = [t \in Threads |-> 0]
  /\ reason = [t \in Threads |-> "none"]
  /\ iter = [t \in Threads |-> NoIter]
  /\ obs_run = [t \in Threads |-> 0]
  /\ obs_prev = [t \in Threads |-> E]
  /\ samples = [t \in Threads |-> <<>>]
  /\ stop_seen = [t \in Threads |-> FALSE]
  /\ same_source_count = 0
  /\ last_source_text = E
  /\ clipboard = E

InitOneRun ==
  /\ InitStarted
  /\ skip_translated \in BOOLEAN
  /\ check_translation_consistency \in BOOLEAN
  /\ check_timeout_count = 1
  /\ last_translated_text = E
  /\ poedit_texts = {E, TxtA, TxtB}
  /\ service_texts = {E, TxtX}
  /\ scripted = FALSE
  /\ record = TRUE
  /\ faulty = FALSE
  /\ timing = DefaultTiming
  /\ config_file = NoConfigFile
  /\ src_feed = <<>>

NextRun ==
  \/ StopButton
  \/ emergency_stop
  \/ FgStop
  \/ \E t \in Threads : translation_loop(t)

RunSpec == InitOneRun /\ [][NextRun]_vars

\* C4: at the third consecutive observation of the same non-empty source
\* text the loop goes no further than the comparison and ends with
\* NaturalCompletion.
C4_ThirdObservationEnds ==
  \A t \in Threads :
    obs_run[t] = 3 =>
      \/ pc[t] \in {"L_compare", "L_check3"}
      \/ pc[t] = "L_finally"

\* C5: in an iteration whose observation is the second or third consecutive
\* one of the same source text, nothing is dispatched to the service.
C5_NoDispatchOnRepeat ==
  \A t \in Threads : obs_run[t] \in {2, 3} => iter[t].disp = 0

(***************************************************************************)
(* ScenarioSpec: the editor delivers Hello, Hello, World, World, World and *)
(* then stays on World; skipping is off, the consistency check is on with  *)
(* five attempts, and the service answers every copy with a new text.      *)
(***************************************************************************)
TxtHello == <<"H", "e", "l", "l", "o">>
TxtWorld == <<"W", "o", "r", "l", "d">>
TxtZ == <<"z">>

InitScenario ==
  /\ InitStarted
  /\ skip_translated = FALSE
  /\ check_translation_consistency = TRUE
  /\ check_timeout_count = 5
  /\ last_translated_text = E
  /\ poedit_texts = {TxtWorld}
  /\ service_texts = {TxtX, TxtY, TxtZ}
  /\ scripted = TRUE
  /\ record = TRUE
  /\ faulty = FALSE
  /\ timing = DefaultTiming
  /\ config_file = NoConfigFile
  /\ src_feed = <<TxtHello, TxtHello, TxtWorld, TxtWorld, TxtWorld>>

\* the loop with a service that never makes the validator poll again
ScenarioLoop(t) ==
  \/ Loop_while(t)
  \/ Loop_source(t)
  \/ Loop_compare(t)
  \/ Loop_check3(t)
  \/ Loop_target(t)
  \/ Loop_dispatch(t)
  \/ Validator_settle(t)
  \/ Validator_poll(t)
  \/ Validator_finish(t)
  \/ Loop_result(t)
  \/ Loop_paste(t)
  \/ Loop_next(t)
  \/ Loop_finally(t)

NextScenario ==
  \/ FgStop
  \/ \E t \in Threads : ScenarioLoop(t)

ScenarioSpec == InitScenario /\ [][NextScenario]_vars

\* C6: in the scenario the run never dispatches more than twice, and when
\* the loop ends it ends with NaturalCompletion after exactly two dispatches;
\* the five texts of the scenario are enough to end it.
C6_ScenarioTwoDispatches ==
  /\ dispatch_count <= 2
  /\ \A t \in Threads :
       /\ pc[t] = "L_finally" =>
            reason[t] = "NaturalCompletion" /\ dispatch_count = 2
       /\ src_feed = <<>> =>
            pc[t] \in {"L_compare", "L_check3", "L_finally", "idle"}

(***************************************************************************)
(* Run control (Spec, FairSpec).                                           *)
(***************************************************************************)
\* the foreground runs a queued start_translation in this step
FgStartStep ==
  /\ fgQueue # <<>>
  /\ Head(fgQueue) = "start"
  /\ fgQueue' = Tail(fgQueue)

\* C2: a start that is handled while the run flag is set creates no further
\* loop thread and leaves same_source_count and last_source_text alone.
C2_StartWhileRunningNoOp ==
  [][ (is_running /\ FgStartStep) =>
        /\ ActiveThreads' = ActiveThreads
        /\ same_source_count' = same_source_count
        /\ last_source_text' = last_source_text
    ]_vars

\* C3: once a stop trigger has arrived during a run, and as long as no start
\* trigger follows it, the loops exit and the run state becomes Idle.
C3_StopLeadsToIdle ==
  stop_requested ~> ((RunIdle /\ NoLoop) \/ ~stop_requested)

(***************************************************************************)
(* The end of the document (Spec, FairSpec).                               *)
(***************************************************************************)
\* thread t samples the source field in this step, the sample is empty
\* after trimming and the run flag is set
EmptySourceStep(t) ==
  /\ pc[t] = "L_source"
  /\ pc'[t] # "L_source"
  /\ is_running
  /\ get_clipboard_content(clipboard') = E

EndedNoMoreContent(t) == pc[t] = "L_finally" /\ reason[t] = "NoMoreContent"

\* C7: an empty source sample taken while the run flag is set ends the loop
\* with NoMoreContent, the iteration having extracted no target, dispatched
\* nothing, written nothing and not advanced; the thread's only step from
\* there hands stop_translation to the foreground, and the run state
\* becomes Idle.
C7_EmptySourceEndsRun ==
  /\ [][\A t \in Threads :
          /\ EmptySourceStep(t) =>
               /\ EndedNoMoreContent(t)'
               /\ iter'[t] = NoIter
          /\ (EndedNoMoreContent(t) /\ pc'[t] # pc[t]) =>
               /\ pc'[t] = "idle"
               /\ fgQueue' = Append(fgQueue, "stop")
               /\ iter[t] = NoIter
               /\ clipboard' = clipboard
       ]_vars
  /\ \A t \in Threads : EndedNoMoreContent(t) ~> RunIdle

\* a loop that has translated a field before has ended on an empty source
C7_Witness ==
  \E t \in Threads :
    /\ EndedNoMoreContent(t)
    /\ is_running
    /\ last_translated_text # E
    /\ iter[t] = NoIter

(***************************************************************************)
(* Skipping translated fields (RunSpec).                                   *)
(***************************************************************************)
\* thread t samples the target field in this step, skipping is enabled and
\* the sample is non-blank after trimming
SkipStep(t) ==
  /\ pc[t] = "L_target"
  /\ pc'[t] \notin {"L_target", "L_finally"}
  /\ skip_translated
  /\ ~IsBlank(get_clipboard_content(clipboard'))

\* the iteration of thread t is on its way to next_translation_item without
\* having dispatched
Skipping(t) == pc[t] = "L_next" /\ iter[t].disp = 0 /\ iter[t].tgt = 1

\* C8: with skipping enabled a non-blank target sample takes the iteration
\* straight to the navigation advance, with nothing dispatched and nothing
\* written; the advance is issued once and the loop is back at its while
\* test.
C8_SkipTranslated ==
  [][\A t \in Threads :
       /\ SkipStep(t) =>
            /\ Skipping(t)'
            /\ iter'[t].write = 0
            /\ iter'[t].nav = 0
       /\ (Skipping(t) /\ pc'[t] # pc[t]) =>
            /\ pc'[t] = "L_while"
            /\ iter'[t] = [tgt |-> 1, disp |-> 0, write |-> 0, nav |-> 1]
    ]_vars

\* a translated field has been skipped and the loop is at its while test
C8_Witness ==
  \E t \in Threads :
    /\ pc[t] = "L_while"
    /\ iter[t] = [tgt |-> 1, disp |-> 0, write |-> 0, nav |-> 1]
    /\ skip_translated
    /\ is_running
    /\ ~IsBlank(clipboard)

(***************************************************************************)
(* ValidatorSpec: one call of wait_for_translation_result, from the state  *)
(* the loop is in after paste_to_translation_service, under every          *)
(* sequence of clipboard samples and with a stop arriving at any time.     *)
(***************************************************************************)
TxtBonjour == <<"B", "o", "n", "j", "o", "u", "r">>

\* the loop has just pasted the source text TxtA into the service
InitValidator ==
  /\ Running
  /\ use_scroll_gesture = FALSE
  /\ convert_newlines = FALSE
  /\ pc = [t \in Threads |-> IF t = 1 THEN "V_settle" ELSE "idle"]
  /\ source_text = [t \in Threads |-> IF t = 1 THEN TxtA ELSE E]
  /\ translated_text = [t \in Threads |-> E]
  /\ check_count = [t \in Threads |-> 0]
  /\ reason = [t \in Threads |-> "none"]
  /\ iter = [t \in Threads |->
               IF t = 1 THEN [tgt |-> 1, disp |-> 1, write |-> 0, nav |-> 0]
               ELSE NoIter]
  /\ obs_run = [t \in Threads |-> IF t = 1 THEN 1 ELSE 0]
  /\ obs_prev = [t \in Threads |-> IF t = 1 THEN TxtA ELSE E]
  /\ samples = [t \in Threads |-> <<>>]
  /\ stop_seen = [t \in Threads |-> FALSE]
  /\ same_source_count = 0
  /\ last_source_text = TxtA
  /\ clipboard = EncodeNewlines(convert_newlines, TxtA)
  /\ skip_translated = FALSE
  /\ check_translation_consistency = TRUE
  /\ check_timeout_count \in 1..MaxChecks
  /\ last_translated_text \in {E, TxtX}
  /\ poedit_texts = {E}
  /\ service_texts = {E, TxtX, TxtBonjour}
  /\ scripted = FALSE
  /\ record = TRUE
  /\ faulty = FALSE
  /\ timing = DefaultTiming
  /\ config_file = NoConfigFile
  /\ src_feed = <<>>

wait_for_translation_result(t) ==
  \/ Validator_settle(t)
  \/ Validator_poll(t)
  \/ Validator_retry(t)
  \/ Validator_finish(t)

NextValidator ==
  \/ StopButton
  \/ emergency_stop
  \/ FgStop
  \/ \E t \in Threads : wait_for_translation_result(t)

ValidatorSpec == InitValidator /\ [][NextValidator]_vars

\* the sample equals the trimmed original
IsEcho(t, s) == s = Strip(source_text[t])
\* the sample equals the trimmed last translation
IsStale(s) == ~IsBlank(s) /\ s = Strip(last_translated_text)
IsFresh(t, s) == ~IsBlank(s) /\ ~IsEcho(t, s) /\ ~IsStale(s)

\* the validator of thread t is about to return a sample with fewer than
\* check_timeout_count attempts used
ReturnsWithinBudget(t) ==
  /\ pc[t] = "V_finish"
  /\ check_translation_consistency
  /\ check_count[t] < check_timeout_count
  /\ ValidatorResult(t) # E

\* the sample returned is the first new one of the samples taken
FirstFreshReturned(t) ==
  /\ samples[t] # <<>>
  /\ ValidatorResult(t) = samples[t][Len(samples[t])]
  /\ IsFresh(t, ValidatorResult(t))
  /\ \A i \in 1..(Len(samples[t]) - 1) : ~IsFresh(t, samples[t][i])

\* C9 as stated: a sample returned with attempts left is never Echo or
\* Stale; it is the first Fresh sample of the sequence.
C9_NoEchoStaleWithinBudget ==
  \A t \in Threads : ReturnsWithinBudget(t) => FirstFreshReturned(t)

\* C9 with the run flag: a sample returned with attempts left, the polling
\* loop not having found the run flag cleared, is never Echo or Stale; it is
\* the first Fresh sample of the sequence.  When the loop finds the flag
\* cleared it returns the sample it holds, whatever its class.
C9_NoEchoStaleWhileRunning ==
  \A t \in Threads :
    /\ (ReturnsWithinBudget(t) /\ ~stop_seen[t]) => FirstFreshReturned(t)
    /\ (pc[t] = "V_finish" /\ samples[t] # <<>>) =>
         ValidatorResult(t) \in {E, samples[t][Len(samples[t])]}

\* with attempts left and no stop, the validator returns the new text that
\* came after an Echo and a Stale sample
C9_Witness ==
  \E t \in Threads :
    /\ ReturnsWithinBudget(t)
    /\ ~stop_seen[t]
    /\ Len(samples[t]) = 3
    /\ IsEcho(t, samples[t][1])
    /\ IsStale(samples[t][2])
    /\ ValidatorResult(t) = TxtBonjour

\* the samples of thread t begin with original, original, lastTranslated,
\* "Bonjour", and at least four attempts are configured
BonjourScenario(t) ==
  /\ check_translation_consistency
  /\ check_timeout_count >= 4
  /\ last_translated_text # E
  /\ Len(samples[t]) >= 4
  /\ SubSeq(samples[t], 1, 4) =
       <<Strip(source_text[t]), Strip(source_text[t]),
         Strip(last_translated_text), TxtBonjour>>

\* C10: in the scenario the fourth copy action is the last one, and the
\* validator returns "Bonjour".
C10_BonjourOnFourthSample ==
  \A t \in Threads :
    BonjourScenario(t) =>
      /\ Len(samples[t]) = 4
      /\ pc[t] \in {"V_poll", "V_finish"}
      /\ pc[t] = "V_finish" => ValidatorResult(t) = TxtBonjour

\* the validator is about to return in the scenario
C10_Witness ==
  \E t \in Threads :
    /\ BonjourScenario(t)
    /\ pc[t] = "V_finish"
    /\ ~stop_seen[t]
    /\ check_count[t] = 3

(***************************************************************************)
(* The end of the poll budget (RunSpec).                                   *)
(***************************************************************************)
\* the validation of thread t has used all its attempts
Exhausted(t) ==
  /\ pc[t] = "V_finish"
  /\ check_translation_consistency
  /\ check_count[t] >= check_timeout_count

LastSample(t) == samples[t][Len(samples[t])]

\* C11: a validation that has used all its attempts returns its last sample
\* if that is non-blank, whatever its class, and "" otherwise; the loop, the
\* run flag set, pastes a non-empty result into the target field and records
\* it as last_translated_text, and goes to the next field without a write on
\* an empty one.
C11_ExhaustedBudget ==
  [][\A t \in Threads :
       /\ (Exhausted(t) /\ pc'[t] # pc[t]) =>
            /\ pc'[t] = "L_result"
            /\ translated_text'[t] =
                 (IF ~IsBlank(LastSample(t)) THEN LastSample(t) ELSE E)
       /\ (pc[t] = "L_result" /\ pc'[t] # pc[t] /\ is_running) =>
            IF translated_text[t] # E
            THEN pc'[t] = "L_paste"
            ELSE pc'[t] = "L_next" /\ iter'[t].write = 0
       /\ (pc[t] = "L_paste" /\ pc'[t] # pc[t] /\ is_running) =>
            /\ pc'[t] = "L_next"
            /\ clipboard' = translated_text[t]
            /\ last_translated_text' = translated_text[t]
            /\ iter'[t].write = 1
    ]_vars

\* no stop was ever requested, the check is on, and the source text itself
\* has been written to the target field and recorded
C11_Witness ==
  \E t \in Threads :
    /\ pc[t] = "L_next"
    /\ check_translation_consistency
    /\ ~stop_requested
    /\ is_running
    /\ iter[t].write = 1
    /\ last_translated_text = obs_prev[t]
    /\ last_translated_text # E

(***************************************************************************)
(* KeySpec: the keyboard hook.  The two combinations are drawn from a set  *)
(* of bindings, every key event may arrive, and the loop is kept to its    *)
(* first test as in StartSpec.                                             *)
(***************************************************************************)
\* str.lower() on the parts the bindings use
Lower(p) ==
  CASE p = "F9" -> "f9"
    [] p = "F10" -> "f10"
    [] p = "Ctrl" -> "ctrl"
    [] p = "S" -> "s"
    [] p = "A" -> "a"
    [] OTHER -> p

\* [p.strip() for p in combo.split('+') if p.strip()], lowercased
hotkey_parts(combo) ==
  SelectSeq([i \in DOMAIN combo |-> Lower(combo[i])], LAMBDA p : p # "")

\* {p for p in parts if p in ('ctrl', 'alt', 'shift')}
hotkey_modifiers(combo) ==
  {hotkey_parts(combo)[i] : i \in DOMAIN hotkey_parts(combo)} \cap Modifiers

\* next((p for p in reversed(parts) if p not in (...)), None); None is ""
hotkey_main_key(combo) ==
  LET parts == hotkey_parts(combo)
      idx == {i \in DOMAIN parts : parts[i] \notin Modifiers}
  IN  IF idx = {} THEN ""
      ELSE parts[CHOOSE i \in idx : \A j \in idx : j <= i]

\* modifiers_match without the loop over the modifiers not in the binding
modifiers_match_noExtra(mods, held) ==
  \A m \in mods : m \in held

\* the two loops over keyboard.is_pressed(m)
modifiers_match(mods, held) ==
  /\ \A m \in mods : m \in held
  /\ \A m \in Modifiers : m \notin mods => m \notin held

\* handler(event): the function it calls
HandlerCall(ev) ==
  IF is_binding_key THEN "none"
  ELSE IF ev.type # "down" THEN "none"
  ELSE IF /\ hotkey_main_key(start_combo) # ""
          /\ ev.name = hotkey_main_key(start_combo)
          /\ modifiers_match(hotkey_modifiers(start_combo), ev.held)
       THEN "start"
  ELSE IF /\ hotkey_main_key(stop_combo) # ""
          /\ ev.name = hotkey_main_key(stop_combo)
          /\ modifiers_match(hotkey_modifiers(stop_combo), ev.held)
       THEN "stop"
  ELSE "none"

\* trigger_start_translation as the handler calls it
call_trigger_start_translation ==
  IF ~is_running
  THEN /\ QueueLeft
       /\ SlotLeft
       /\ fgQueue' = Append(fgQueue, "start")
       /\ stop_requested' = FALSE
       /\ UNCHANGED is_running
  ELSE UNCHANGED <<is_running, fgQueue, stop_requested>>

\* emergency_stop as the handler calls it
call_emergency_stop ==
  IF is_running
  THEN /\ QueueLeft
       /\ is_running' = FALSE
       /\ fgQueue' = Append(fgQueue, "stop")
       /\ stop_requested' = TRUE
  ELSE UNCHANGED <<is_running, fgQueue, stop_requested>>

KeyEvents ==
  [type : {"down", "up"}, name : {"s", "q", "f9"}, held : SUBSET Modifiers]

\* the names on_key_event takes for a modifier pressed alone
ModifierKeyNames ==
  {"ctrl", "alt", "shift", "left ctrl", "right ctrl", "left alt",
   "right alt", "left shift", "right shift"}

\* key_name.split('+') as setup_hotkey_listener will see the name inside the
\* combination: the name itself, or two empty parts for the key named '+'
split_plus(key_name) == IF key_name = "+" THEN <<"", "">> ELSE <<key_name>>

\* on_key_event: '+'.join(modifiers + [key_name]), the modifiers in the order
\* ctrl, alt, shift; the combination is kept by its '+'-separated parts
hotkey_str(ev) ==
  SelectSeq(<<"ctrl", "alt", "shift">>, LAMBDA m : m \in ev.held)
    \o split_plus(ev.name)

\* on_key_event(event) takes the event as the new combination
Captures(ev) ==
  /\ binding_hook
  /\ ev.type = "down"
  /\ is_binding_key
  /\ ev.name \notin ModifierKeyNames

\* on_key_event(event), the callback of the rebinding hook
on_key_event(ev) ==
  IF Captures(ev)
  THEN /\ IF binding_key_type = "start"
          THEN /\ start_hotkey' = hotkey_str(ev)
               /\ captured' = [captured EXCEPT !.start = ev]
               /\ UNCHANGED stop_hotkey
          ELSE /\ stop_hotkey' = hotkey_str(ev)
               /\ captured' = [captured EXCEPT !.stop = ev]
               /\ UNCHANGED start_hotkey
       /\ is_binding_key' = FALSE
       /\ binding_key_type' = "none"
       /\ binding_hook' = FALSE
       /\ timers' = Append(timers, "setup_hotkey_listener")
  ELSE UNCHANGED <<start_hotkey, stop_hotkey, captured, is_binding_key,
                   binding_key_type, binding_hook, timers>>

\* the keyboard library calls the installed callbacks for a key event, on
\* its own thread and in the order of their installation: handler(event) if
\* hotkey_hook is installed, then on_key_event(event) if the rebinding hook is
Deliver(ev) ==
  LET call == IF hotkey_hook THEN HandlerCall(ev) ELSE "none" IN
  /\ hotkey_hook \/ binding_hook
  /\ key_event' = ev
  /\ signal' = call
  /\ CASE call = "start" -> call_trigger_start_translation
       [] call = "stop" -> call_emergency_stop
       [] OTHER -> UNCHANGED <<is_running, fgQueue, stop_requested>>
  /\ on_key_event(ev)
  /\ UNCHANGED <<settingVars, start_combo, stop_combo, hotkey_hook, envVars,
                 src_feed, buttonVars, counterVars, last_translated_text,
                 clipboard, pc, localVars, histVars>>

\* the hook delivers a key event to handler, on the hook's thread
handler == \E ev \in KeyEvents : Deliver(ev)

StartCombos ==
  {<<"F9">>, <<"ctrl", "s">>, <<"Ctrl", "", "S">>, <<"ctrl", "shift", "s">>,
   <<"ctrl">>}
StopCombos == {<<"q">>, <<"ctrl", "s">>, <<"shift", "s">>}

InitKey ==
  /\ InitThreads
  /\ start_hotkey \in StartCombos
  /\ stop_hotkey \in StopCombos
  /\ is_binding_key \in BOOLEAN
  /\ key_event = NoEvent
  /\ signal = "none"
  /\ InitListening
  /\ is_running = FALSE
  /\ start_button = "normal"
  /\ stop_button = "disabled"
  /\ status = "none"
  /\ same_source_count = 0
  /\ last_source_text = E
  /\ last_translated_text = E
  /\ fgQueue = <<>>
  /\ dispatch_count = 0
  /\ stop_requested = FALSE
  /\ coordinates = AllSet
  /\ copy_method = 0
  /\ use_scroll_gesture = FALSE
  /\ skip_translated = TRUE
  /\ check_translation_consistency = TRUE
  /\ check_timeout_count = 1
  /\ convert_newlines = FALSE
  /\ poedit_texts = {E}
  /\ service_texts = {TxtX}
  /\ scripted = FALSE
  /\ record = FALSE
  /\ faulty = FALSE
  /\ timing = DefaultTiming
  /\ config_file = NoConfigFile
  /\ src_feed = <<>>
  /\ clipboard = E

NextKey ==
  \/ handler
  \/ FgStart
  \/ FgStop
  \/ \E t \in Threads : Loop_while(t) \/ Loop_source(t) \/ Loop_finally(t)

KeySpec == InitKey /\ [][NextKey]_vars

\* the key-down of the binding's main key with exactly its modifiers held
C12_Matches(combo, ev) ==
  /\ ev.type = "down"
  /\ hotkey_main_key(combo) # ""
  /\ ev.name = hotkey_main_key(combo)
  /\ ev.held = hotkey_modifiers(combo)

CtrlS(type, held) == [type |-> type, name |-> "s", held |-> held]

\* C12: while no key is being bound, the handler calls the start (stop)
\* function for an event only if the event is the key-down of the start
\* (stop) binding's main key with exactly the binding's modifiers held; with
\* ctrl+s bound to start, ctrl+shift+s, plain s and every key-up call
\* nothing for start, and the key-down of s with ctrl alone calls it.
C12_HotkeyMatch ==
  /\ signal # "none" => ~is_binding_key
  /\ signal = "start" => C12_Matches(start_hotkey, key_event)
  /\ signal = "stop" => C12_Matches(stop_hotkey, key_event)
  /\ (start_hotkey = <<"ctrl", "s">> /\ ~is_binding_key) =>
       /\ key_event = CtrlS("down", {"ctrl", "shift"}) => signal # "start"
       /\ key_event = CtrlS("down", {}) => signal # "start"
       /\ key_event.type = "up" => signal = "none"
       /\ key_event = CtrlS("down", {"ctrl"}) => signal = "start"

\* ctrl+shift+s has arrived under the start binding ctrl+s and was rejected
C12_Witness ==
  /\ start_hotkey = <<"ctrl", "s">>
  /\ ~is_binding_key
  /\ key_event = CtrlS("down", {"ctrl", "shift"})
  /\ signal = "none"

(***************************************************************************)
(* RoundTripSpec: one source text with line breaks goes through            *)
(* paste_to_translation_service, comes back from a service that returns    *)
(* what it was given, and through the end of wait_for_translation_result.  *)
(***************************************************************************)
RECURSIVE TextsUpTo(_)
\* the texts over a, LF, CR of at most n characters
TextsUpTo(n) ==
  IF n = 0 THEN {E}
  ELSE LET shorter == TextsUpTo(n - 1)
       IN  shorter \cup {Append(s, c) : s \in shorter, c \in {"a", "\n", "\r"}}

\* what get_poedit_source_text can return and the loop goes on with
SourceTexts == {Strip(s) : s \in TextsUpTo(MaxLen)} \ {E}

\* the loop is about to paste source_text into the service
InitRoundTrip ==
  /\ Running
  /\ use_scroll_gesture = FALSE
  /\ convert_newlines \in BOOLEAN
  /\ pc = [t \in Threads |-> IF t = 1 THEN "L_dispatch" ELSE "idle"]
  /\ source_text \in {[t \in Threads |-> IF t = 1 THEN s ELSE E] :
                        s \in SourceTexts}
  /\ translated_text = [t \in Threads |-> E]
  /\ check_count = [t \in Threads |-> 0]
  /\ reason = [t \in Threads |-> "none"]
  /\ iter = [t \in Threads |->
               IF t = 1 THEN [tgt |-> 1, disp |-> 0, write |-> 0, nav |-> 0]
               ELSE NoIter]
  /\ obs_run = [t \in Threads |-> IF t = 1 THEN 1 ELSE 0]
  /\ obs_prev = source_text
  /\ samples = [t \in Threads |-> <<>>]
  /\ stop_seen = [t \in Threads |-> FALSE]
  /\ same_source_count = 0
  /\ last_source_text = source_text[1]
  /\ clipboard = E
  /\ skip_translated = FALSE
  /\ check_translation_consistency = FALSE
  /\ check_timeout_count = 1
  /\ last_translated_text = E
  /\ poedit_texts = {E}
  /\ service_texts = {EncodeNewlines(convert_newlines, source_text[1])}
  /\ scripted = FALSE
  /\ record = TRUE
  /\ faulty = FALSE
  /\ timing = DefaultTiming
  /\ config_file = NoConfigFile
  /\ src_feed = <<>>

NextRoundTrip ==
  \E t \in Threads :
    \/ Loop_dispatch(t)
    \/ Validator_settle(t)
    \/ Validator_finish(t)

RoundTripSpec == InitRoundTrip /\ [][NextRoundTrip]_vars

RECURSIVE NormalizeBreaks(_)
\* the text with every CRLF and every other CR turned into LF
NormalizeBreaks(s) ==
  IF s = E THEN E
  ELSE IF Head(s) = "\r"
       THEN IF Len(s) >= 2 /\ s[2] = "\n"
            THEN <<"\n">> \o NormalizeBreaks(SubSeq(s, 3, Len(s)))
            ELSE <<"\n">> \o NormalizeBreaks(Tail(s))
       ELSE <<Head(s)>> \o NormalizeBreaks(Tail(s))

\* the validator of thread t holds the encoded source text, conversion on
RoundTripDone(t) ==
  /\ pc[t] = "V_finish"
  /\ convert_newlines
  /\ ~Contains(source_text[t], NL_TOKEN)
  /\ translated_text[t] = EncodeNewlines(TRUE, source_text[t])

InitFault ==
  /\ InitStarted
  /\ skip_translated \in BOOLEAN
  /\ check_translation_consistency \in BOOLEAN
  /\ check_timeout_count = 1
  /\ last_translated_text = E
  /\ poedit_texts = {TxtA, TxtB}
  /\ service_texts = {E, TxtX}
  /\ scripted = FALSE
  /\ record = TRUE
  /\ faulty = TRUE
  /\ timing = DefaultTiming
  /\ config_file = NoConfigFile
  /\ src_feed = <<>>

FaultSpec == InitFault /\ [][NextRun]_vars

\* C14: a fault of the input driver during a step of an iteration does not
\* end the loop.
C14_FaultNeverEndsRun ==
  \A t \in Threads : ~(pc[t] = "L_finally" /\ reason[t] = "SourceFault")

(***************************************************************************)
(* The hook's thread and the run flag (KeySpec).                           *)
(***************************************************************************)
\* C15: no step of the hotkey handler, which runs on the hook's thread,
\* changes the run flag.
C15_HookNeverWritesFlag ==
  [][handler => is_running' = is_running]_vars

(***************************************************************************)
(* LoadSpec: __init__ up to load_config, with a configuration file that    *)
(* has any subset of the top-level keys, and the first start after it.     *)
(***************************************************************************)
ConfigKeys ==
  {"coordinates", "skip_translated", "translation_wait_time",
   "start_hotkey_combination", "stop_hotkey_combination",
   "check_translation_consistency", "check_interval", "check_timeout_count",
   "copy_method", "use_scroll_gesture", "scroll_gesture_wait_time",
   "convert_newlines"}

\* the values the file holds for the keys it has, none of them the default
SavedConfig ==
  [coordinates |-> AllSet,
   skip_translated |-> FALSE,
   translation_wait_time |-> 1000,
   start_hotkey_combination |-> <<"ctrl", "s">>,
   stop_hotkey_combination |-> <<"q">>,
   check_translation_consistency |-> FALSE,
   check_interval |-> 200,
   check_timeout_count |-> 3,
   copy_method |-> 1,
   use_scroll_gesture |-> TRUE,
   scroll_gesture_wait_time |-> 300,
   convert_newlines |-> TRUE]

\* config[key] if 'key' in config, else the setting as it is
Loaded(key, current) ==
  IF key \in config_file.present THEN SavedConfig[key] ELSE current

\* load_config without the lines for 'copy_method'
load_config_noCopyMethod ==
  /\ ~config_file.loaded
  /\ coordinates' = Loaded("coordinates", coordinates)
  /\ skip_translated' = Loaded("skip_translated", skip_translated)
  /\ timing' =
       [translation_wait_time |->
          Loaded("translation_wait_time", timing.translation_wait_time),
        check_interval |-> Loaded("check_interval", timing.check_interval),
        scroll_gesture_wait_time |->
          Loaded("scroll_gesture_wait_time", timing.scroll_gesture_wait_time)]
  /\ start_hotkey' = Loaded("start_hotkey_combination", start_hotkey)
  /\ stop_hotkey' = Loaded("stop_hotkey_combination", stop_hotkey)
  /\ check_translation_consistency' =
       Loaded("check_translation_consistency", check_translation_consistency)
  /\ check_timeout_count' = Loaded("check_timeout_count", check_timeout_count)
  /\ use_scroll_gesture' = Loaded("use_scroll_gesture", use_scroll_gesture)
  /\ convert_newlines' = Loaded("convert_newlines", convert_newlines)
  /\ config_file' = [config_file EXCEPT !.loaded = TRUE]
  /\ timers' = Append(timers, "setup_hotkey_listener")
  /\ UNCHANGED <<start_combo, stop_combo, hotkey_hook, binding_hook,
                 binding_key_type, captured>>
  /\ UNCHANGED <<copy_method, is_binding_key, key_event, signal, poedit_texts,
                 service_texts, scripted, record, faulty, src_feed,
                 is_running, buttonVars, counterVars, last_translated_text,
                 clipboard, fgQueue, pc, localVars, histVars,
                 stop_requested>>

\* load_config, called once at the end of __init__
load_config ==
  /\ ~config_file.loaded
  /\ coordinates' = Loaded("coordinates", coordinates)
  /\ skip_translated' = Loaded("skip_translated", skip_translated)
  /\ timing' =
       [translation_wait_time |->
          Loaded("translation_wait_time", timing.translation_wait_time),
        check_interval |-> Loaded("check_interval", timing.check_interval),
        scroll_gesture_wait_time |->
          Loaded("scroll_gesture_wait_time", timing.scroll_gesture_wait_time)]
  /\ start_hotkey' = Loaded("start_hotkey_combination", start_hotkey)
  /\ stop_hotkey' = Loaded("stop_hotkey_combination", stop_hotkey)
  /\ check_translation_consistency' =
       Loaded("check_translation_consistency", check_translation_consistency)
  /\ check_timeout_count' = Loaded("check_timeout_count", check_timeout_count)
  /\ copy_method' = Loaded("copy_method", copy_method)
  /\ use_scroll_gesture' = Loaded("use_scroll_gesture", use_scroll_gesture)
  /\ convert_newlines' = Loaded("convert_newlines", convert_newlines)
  /\ config_file' = [config_file EXCEPT !.loaded = TRUE]
  \* self.root.after(100, self.setup_hotkey_listener)
  /\ timers' = Append(timers, "setup_hotkey_listener")
  /\ UNCHANGED <<start_combo, stop_combo, hotkey_hook, binding_hook,
                 binding_key_type, captured>>
  /\ UNCHANGED <<is_binding_key, key_event, signal, poedit_texts,
                 service_texts, scripted, record, faulty, src_feed,
                 is_running, buttonVars, counterVars, last_translated_text,
                 clipboard, fgQueue, pc, localVars, histVars,
                 stop_requested>>

\* __init__ before its last line
InitLoad ==
  /\ InitThreads
  /\ InitHook
  /\ InitStartup
  /\ is_running = FALSE
  /\ start_button = "normal"
  /\ stop_button = "disabled"
  /\ status = "none"
  /\ same_source_count = 0
  /\ last_source_text = E
  /\ last_translated_text = E
  /\ fgQueue = <<>>
  /\ dispatch_count = 0
  /\ stop_requested = FALSE
  /\ coordinates = DefaultConfig.coordinates
  /\ copy_method = DefaultConfig.copy_method
  /\ use_scroll_gesture = DefaultConfig.use_scroll_gesture
  /\ skip_translated = DefaultConfig.skip_translated
  /\ check_translation_consistency =
       DefaultConfig.check_translation_consistency
  /\ check_timeout_count = DefaultConfig.check_timeout_count
  /\ convert_newlines = DefaultConfig.convert_newlines
  /\ timing = DefaultTiming
  /\ config_file \in [present : SUBSET ConfigKeys, loaded : {FALSE}]
  /\ poedit_texts = {E}
  /\ service_texts = {TxtX}
  /\ scripted = FALSE
  /\ record = FALSE
  /\ faulty = FALSE
  /\ src_feed = <<>>
  /\ clipboard = E

\* the main loop runs once __init__ is over
MainLoopStep ==
  /\ config_file.loaded
  /\ \/ StartButton
     \/ FgStop
     \/ \E t \in Threads : Loop_while(t) \/ Loop_source(t) \/ Loop_finally(t)

NextLoad ==
  \/ load_config
  \/ MainLoopStep

LoadSpec == InitLoad /\ [][NextLoad]_vars

\* the settings as they are
CurrentConfig ==
  [coordinates |-> coordinates,
   skip_translated |-> skip_translated,
   translation_wait_time |-> timing.translation_wait_time,
   start_hotkey_combination |-> start_hotkey,
   stop_hotkey_combination |-> stop_hotkey,
   check_translation_consistency |-> check_translation_consistency,
   check_interval |-> timing.check_interval,
   check_timeout_count |-> check_timeout_count,
   copy_method |-> copy_method,
   use_scroll_gesture |-> use_scroll_gesture,
   scroll_gesture_wait_time |-> timing.scroll_gesture_wait_time,
   convert_newlines |-> convert_newlines]

\* C16: after load_config every setting whose key the file lacks has its
\* default value and every setting whose key the file has has the file's
\* value; before it every setting has its default.
C16_LoadKeepsDefaults ==
  \A k \in ConfigKeys :
    CurrentConfig[k] =
      IF config_file.loaded /\ k \in config_file.present
      THEN SavedConfig[k] ELSE DefaultConfig[k]

\* a file with only 'copy_method' and 'convert_newlines' has been loaded
C16_Witness ==
  /\ config_file = [present |-> {"copy_method", "convert_newlines"},
                    loaded |-> TRUE]
  /\ copy_method = 1
  /\ convert_newlines
  /\ check_timeout_count = 20
  /\ start_hotkey = <<"F9">>

(***************************************************************************)
(* One loop at a time (Spec).                                              *)
(***************************************************************************)
\* the threads that are inside translation_loop's while statement
InLoop == {t \in Threads : pc[t] \notin {"idle", "L_finally"}}

\* C17: at most one translation_loop is executing.
C17_AtMostOneLoop == Cardinality(InLoop) <= 1

(***************************************************************************)
(* GestureSpec: one call of wait_for_translation_result with the scroll    *)
(* gesture configured, a stop arriving at any time.                        *)
(***************************************************************************)
\* as InitValidator, with use_scroll_gesture set
InitGesture ==
  /\ Running
  /\ use_scroll_gesture = TRUE
  /\ convert_newlines = FALSE
  /\ pc = [t \in Threads |-> IF t = 1 THEN "V_settle" ELSE "idle"]
  /\ source_text = [t \in Threads |-> IF t = 1 THEN TxtA ELSE E]
  /\ translated_text = [t \in Threads |-> E]
  /\ check_count = [t \in Threads |-> 0]
  /\ reason = [t \in Threads |-> "none"]
  /\ iter = [t \in Threads |->
               IF t = 1 THEN [tgt |-> 1, disp |-> 1, write |-> 0, nav |-> 0]
               ELSE NoIter]
  /\ obs_run = [t \in Threads |-> IF t = 1 THEN 1 ELSE 0]
  /\ obs_prev = [t \in Threads |-> IF t = 1 THEN TxtA ELSE E]
  /\ samples = [t \in Threads |-> <<>>]
  /\ stop_seen = [t \in Threads |-> FALSE]
  /\ same_source_count = 0
  /\ last_source_text = TxtA
  /\ clipboard = TxtA
  /\ skip_translated = FALSE
  /\ check_translation_consistency \in BOOLEAN
  /\ check_timeout_count \in 1..MaxChecks
  /\ last_translated_text \in {E, TxtX}
  /\ poedit_texts = {E}
  /\ service_texts = {E, TxtX, TxtBonjour}
  /\ scripted = FALSE
  /\ record = TRUE
  /\ faulty = FALSE
  /\ timing = DefaultTiming
  /\ config_file = NoConfigFile
  /\ src_feed = <<>>

GestureSpec == InitGesture /\ [][NextValidator]_vars

\* C18: a validator whose polling condition has found the run flag cleared
\* performs no scroll gesture before it returns.
C18_NoGestureAfterStopSeen ==
  \A t \in Threads : ~(stop_seen[t] /\ pc[t] = "V_return")

(***************************************************************************)
(* The cost of one validation (FairValidatorSpec).                         *)
(***************************************************************************)
\* the validator's thread keeps being scheduled
FairValidatorSpec ==
  /\ InitValidator
  /\ [][NextValidator]_vars
  /\ \A t \in Threads : WF_vars(wait_for_translation_result(t))

\* thread t is inside wait_for_translation_result
InValidator(t) == pc[t] \in {"V_settle", "V_poll", "V_retry", "V_finish",
                             "V_return"}

\* C19 as stated: the copy-and-sample actions of one validation are never
\* more than check_timeout_count.
C19_CopiesWithinMax ==
  \A t \in Threads : Len(samples[t]) <= check_timeout_count

\* C19 with the first copy counted: the copy-and-sample actions of one
\* validation are never more than check_timeout_count + 1, the copy before
\* the polling loop and one after each failed check, and the validation
\* always comes to its end.
C19_CopiesWithinMaxPlusOne ==
  /\ [](\A t \in Threads : Len(samples[t]) <= check_timeout_count + 1)
  /\ \A t \in Threads : InValidator(t) ~> ~InValidator(t)

\* a validation with three attempts configured has sampled four times
C19_Witness ==
  \E t \in Threads :
    /\ pc[t] = "V_finish"
    /\ check_timeout_count = 3
    /\ check_count[t] = 3
    /\ Len(samples[t]) = 4

(***************************************************************************)
(* The validator with the consistency check off (RunSpec).                 *)
(***************************************************************************)
\* C20: with check_translation_consistency off the validator never enters
\* the polling loop; it takes one sample and returns it if it is non-blank,
\* whatever its class, and "" if it is blank; the loop, the run flag set,
\* writes a non-empty result to the target field and goes to the next field
\* without a write on an empty one.
C20_SingleSampleNoClassification ==
  [][~check_translation_consistency =>
       \A t \in Threads :
         /\ pc'[t] \notin {"V_poll", "V_retry"}
         /\ (pc[t] = "V_settle" /\ pc'[t] # pc[t] /\ is_running) =>
              /\ pc'[t] = "V_finish"
              /\ Len(samples'[t]) = 1
         /\ (pc[t] = "V_finish" /\ pc'[t] # pc[t]) =>
              /\ Len(samples[t]) = 1
              /\ pc'[t] = "L_result"
              /\ translated_text'[t] =
                   (IF ~IsBlank(samples[t][1]) THEN samples[t][1] ELSE E)
         /\ (pc[t] = "L_result" /\ pc'[t] # pc[t] /\ is_running) =>
              IF translated_text[t] # E
              THEN pc'[t] = "L_paste"
              ELSE pc'[t] = "L_next" /\ iter'[t].write = iter[t].write
         /\ (pc[t] = "L_paste" /\ pc'[t] # pc[t] /\ is_running) =>
              /\ pc'[t] = "L_next"
              /\ clipboard' = translated_text[t]
    ]_vars

\* the check is off and a sample equal to the source text has been written
\* to the target field
C20_Witness ==
  \E t \in Threads :
    /\ pc[t] = "L_next"
    /\ ~check_translation_consistency
    /\ is_running
    /\ iter[t].write = 1
    /\ clipboard = obs_prev[t]
    /\ clipboard # E

(***************************************************************************)
(* The scroll gesture of one validation (GestureSpec).                     *)
(***************************************************************************)
\* the sample the validator holds is one the polling loop accepted as new
AcceptedFresh(t) ==
  /\ check_translation_consistency
  /\ ~stop_seen[t]
  /\ Classify(translated_text[t], source_text[t], last_translated_text)
       = "Fresh"

\* C21 as stated: the gesture of a validation is performed only on a result
\* accepted as Fresh, not on a timeout, on a stop or with the consistency
\* check off.
C21_GestureOnlyBeforeFresh ==
  \A t \in Threads : pc[t] = "V_return" => AcceptedFresh(t)

\* C21 for every outcome: with the gesture configured a validation performs
\* the scroll-to-top gesture once, after its last sample and before it
\* returns, whatever the number of poll attempts and whatever ended the
\* polling.
C21_GestureOncePerValidation ==
  [][\A t \in Threads :
       /\ (pc'[t] = "V_return" /\ pc[t] # "V_return") => pc[t] = "V_finish"
       /\ (pc'[t] = "L_result" /\ pc[t] # "L_result") => pc[t] = "V_return"
       /\ (pc[t] = "V_return" /\ pc'[t] # "V_return") => pc'[t] = "L_result"
    ]_vars

\* the gesture has been made after three failed checks out of three
C21_Witness ==
  \E t \in Threads :
    /\ pc[t] = "V_return"
    /\ check_timeout_count = 3
    /\ check_count[t] = 3
    /\ Len(samples[t]) = 4
    /\ ~AcceptedFresh(t)

(***************************************************************************)
(* BaselineSpec: the dispatch of one source text and its validation, the   *)
(* text with any line breaks and the newline conversion on or off, the     *)
(* service holding a text of its own or nothing to copy.                   *)
(***************************************************************************)
InitBaseline ==
  /\ Running
  /\ use_scroll_gesture = FALSE
  /\ convert_newlines \in BOOLEAN
  /\ pc = [t \in Threads |-> IF t = 1 THEN "L_dispatch" ELSE "idle"]
  /\ source_text \in {[t \in Threads |-> IF t = 1 THEN s ELSE E] :
                        s \in SourceTexts}
  /\ translated_text = [t \in Threads |-> E]
  /\ check_count = [t \in Threads |-> 0]
  /\ reason = [t \in Threads |-> "none"]
  /\ iter = [t \in Threads |->
               IF t = 1 THEN [tgt |-> 1, disp |-> 0, write |-> 0, nav |-> 0]
               ELSE NoIter]
  /\ obs_run = [t \in Threads |-> IF t = 1 THEN 1 ELSE 0]
  /\ obs_prev = source_text
  /\ samples = [t \in Threads |-> <<>>]
  /\ stop_seen = [t \in Threads |-> FALSE]
  /\ same_source_count = 0
  /\ last_source_text = source_text[1]
  \* the target text read at the skip test
  /\ clipboard = TxtY
  /\ skip_translated = FALSE
  /\ check_translation_consistency \in BOOLEAN
  /\ check_timeout_count \in 1..2
  /\ last_translated_text = E
  /\ poedit_texts = {E}
  /\ service_texts = {E, TxtX}
  /\ scripted = FALSE
  /\ record = TRUE
  /\ faulty = FALSE
  /\ timing = DefaultTiming
  /\ config_file = NoConfigFile
  /\ src_feed = <<>>

NextBaseline ==
  \/ StopButton
  \/ emergency_stop
  \/ FgStop
  \/ \E t \in Threads : Loop_dispatch(t)
  \/ \E t \in Threads : wait_for_translation_result(t)

BaselineSpec == InitBaseline /\ [][NextBaseline]_vars

\* the texts a copy action on the service can put on the clipboard, as
\* get_clipboard_content returns them
ServiceSamples == {get_clipboard_content(v) : v \in service_texts}

\* C22: every sample of a validation is a text copied from the service or,
\* when the copy action put nothing on the clipboard, the trimmed original
\* source text (Echo): the clipboard was set to the original before the
\* first copy action, so the dispatched text and the text read from the
\* target field are never sampled.
C22_BaselineBeforeFirstCopy ==
  \A t \in Threads :
    \A i \in 1..Len(samples[t]) :
      \/ samples[t][i] \in ServiceSamples
      \/ /\ IsEcho(t, samples[t][i])
         /\ Classify(samples[t][i], source_text[t], last_translated_text)
              = "Echo"

\* the conversion is on, the source text has a line break, so the text
\* dispatched differs from it, and the first copy action left the clipboard
\* as it was: the sample is the source text
C22_Witness ==
  \E t \in Threads :
    /\ convert_newlines
    /\ Contains(source_text[t], LF)
    /\ EncodeNewlines(convert_newlines, source_text[t]) # source_text[t]
    /\ Len(samples[t]) = 1
    /\ clipboard = source_text[t]
    /\ samples[t][1] = source_text[t]

C24_StopMatchRaisesStop ==
  [][(/\ handler
      /\ is_running
      /\ ~is_binding_key
      /\ C12_Matches(stop_hotkey, key_event'))
       => signal' = "stop"]_vars

(***************************************************************************)
(* BindSpec: the rebinding of the two hotkeys.  The operator clicks a      *)
(* hotkey display at any time, the callbacks scheduled with                *)
(* root.after(100, ...) run in the order they were scheduled, and key      *)
(* events arrive at whatever hooks are installed.                          *)
(***************************************************************************)
\* start_key_binding(key_type), the click on a hotkey display
start_key_binding(key_type) ==
  /\ IF is_binding_key
     THEN UNCHANGED <<is_binding_key, binding_key_type, hotkey_hook, timers>>
     ELSE /\ is_binding_key' = TRUE
          /\ binding_key_type' = key_type
          \* the listening hook is taken off for the time of the rebinding
          /\ hotkey_hook' = FALSE
          /\ timers' = Append(timers, "listen_for_key")
  /\ UNCHANGED <<settingVars, start_hotkey, stop_hotkey, key_event, signal,
                 start_combo, stop_combo, binding_hook, captured, envVars,
                 src_feed, is_running, buttonVars, counterVars,
                 last_translated_text, clipboard, fgQueue, pc, localVars,
                 histVars, stop_requested>>

\* listen_for_key, run by the main loop 100 ms after start_key_binding
listen_for_key ==
  /\ timers # <<>>
  /\ Head(timers) = "listen_for_key"
  /\ timers' = Tail(timers)
  /\ binding_hook' = IF is_binding_key THEN TRUE ELSE binding_hook
  /\ UNCHANGED <<settingVars, hookVars, start_combo, stop_combo, hotkey_hook,
                 binding_key_type, captured, envVars, src_feed, is_running,
                 buttonVars, counterVars, last_translated_text, clipboard,
                 fgQueue, pc, localVars, histVars, stop_requested>>

\* setup_hotkey_listener, run by the main loop 100 ms after it was asked
\* for: the old hook off, the two combinations read, the new hook on
setup_hotkey_listener ==
  /\ timers # <<>>
  /\ Head(timers) = "setup_hotkey_listener"
  /\ timers' = Tail(timers)
  /\ start_combo' = start_hotkey
  /\ stop_combo' = stop_hotkey
  /\ hotkey_hook' = TRUE
  /\ UNCHANGED <<settingVars, hookVars, binding_hook, binding_key_type,
                 captured, envVars, src_feed, is_running, buttonVars,
                 counterVars, last_translated_text, clipboard, fgQueue, pc,
                 localVars, histVars, stop_requested>>

\* the key events of BindSpec: the letter s, the key named '+' and the ctrl
\* key itself, each with ctrl held or not
BindEvents ==
  {ev \in [type : {"down", "up"}, name : {"s", "+", "ctrl"},
           held : SUBSET {"ctrl"}] :
     ev.type = "up" => ev.held = {}}

keyboard_event == \E ev \in BindEvents : Deliver(ev)

\* the application is idle, F9 and F10 bound, the listening hook installed
InitBind ==
  /\ InitRun
  /\ coordinates = AllSet
  /\ copy_method = 0
  /\ use_scroll_gesture = FALSE
  /\ skip_translated = TRUE
  /\ check_translation_consistency = TRUE
  /\ check_timeout_count = 1
  /\ convert_newlines = FALSE
  /\ poedit_texts = {E}
  /\ service_texts = {TxtX}
  /\ scripted = FALSE
  /\ record = FALSE
  /\ faulty = FALSE
  /\ timing = DefaultTiming
  /\ config_file = NoConfigFile
  /\ src_feed = <<>>
  /\ clipboard = E

NextBind ==
  \/ \E k \in {"start", "stop"} : start_key_binding(k)
  \/ listen_for_key
  \/ setup_hotkey_listener
  \/ keyboard_event
  \/ FgStart
  \/ FgStop
  \/ \E t \in Threads : Loop_while(t) \/ Loop_source(t) \/ Loop_finally(t)

BindSpec == InitBind /\ [][NextBind]_vars
\* C25: one and only one of the listening hook and the rebinding hook is
\* installed.
C25_ExactlyOneHook == hotkey_hook # binding_hook

\* the two hooks are installed together
BothHooks == hotkey_hook /\ binding_hook

\* a rebinding is under way: the key is awaited, or it has been taken and
\* the setup_hotkey_listener asked for has not run yet
InRebinding ==
  \/ is_binding_key
  \/ \E i \in DOMAIN timers : timers[i] = "setup_hotkey_listener"

\* C27: no key event that arrives while a rebinding is under way, the one
\* that completes it included, makes the handler call the start or the stop
\* function.
C27_NoSignalDuringRebinding ==
  [][(keyboard_event /\ InRebinding) => signal' = "none"]_vars
\* the rebinding hook gets a key event while a key is awaited
BindingEvent == keyboard_event /\ binding_hook /\ is_binding_key

\* C26: a key event that is not a key-down, or is the key-down of a
\* modifier, leaves the rebinding as it is; the first other key-down ends it
\* with the combination of the role being bound matching that key with the
\* modifiers held, the other role's combination unchanged; a request made
\* during a rebinding does not change the role being bound; and once the
\* listening hook is back it holds the two combinations as they are, each
\* matching the key event that was taken for it.
C26_RebindStoresKey ==
  /\ [][BindingEvent =>
          IF key_event'.type # "down" \/ key_event'.name \in Modifiers
          THEN UNCHANGED <<start_hotkey, stop_hotkey, is_binding_key,
                           binding_key_type>>
          ELSE /\ ~is_binding_key'
               /\ IF binding_key_type = "start"
                  THEN /\ C12_Matches(start_hotkey', key_event')
                       /\ stop_hotkey' = stop_hotkey
                  ELSE /\ C12_Matches(stop_hotkey', key_event')
                       /\ start_hotkey' = start_hotkey]_vars
  /\ [][binding_key_type # "none" =>
          binding_key_type' \in {binding_key_type, "none"}]_vars
  /\ [](hotkey_hook /\ ~InRebinding =>
          /\ start_combo = start_hotkey
          /\ stop_combo = stop_hotkey
          /\ captured.start # NoEvent =>
               C12_Matches(start_combo, captured.start)
          /\ captured.stop # NoEvent =>
               C12_Matches(stop_combo, captured.stop))

(***************************************************************************)
(* same_source_count (Spec).                                               *)
(***************************************************************************)
\* C28: same_source_count is always between 0 and 3; the comparison of an
\* iteration sets it to 0 when the source text differs from
\* last_source_text and adds one when it is the same; and the loop ends with
\* NaturalCompletion in the iteration that finds it at 3 and in no other.
C28_RepeatCountBounds ==
  /\ [](same_source_count \in 0..3)
  /\ [][\A t \in Threads :
          /\ (pc[t] = "L_compare" /\ pc'[t] # pc[t]) =>
               same_source_count' =
                 (IF source_text[t] = last_source_text
                  THEN same_source_count + 1 ELSE 0)
          /\ (pc[t] = "L_check3" /\ pc'[t] # pc[t]) =>
               (reason'[t] = "NaturalCompletion" <=> same_source_count = 3)
       ]_vars

(***************************************************************************)
(* StaleSpec: a run has just been stopped with the stop button and its     *)
(* loop is on its way out.  From here the operator only starts runs: no    *)
(* stop is triggered, and the editor always shows a text, so a loop ends   *)
(* only when it finds the run flag cleared.  The loop is kept to its first *)
(* test as in KeySpec.                                                     *)
(***************************************************************************)
InitStale ==
  /\ InitHook
  /\ InitListening
  /\ \E at \in {"L_while", "L_source", "L_finally"} :
       /\ pc = [t \in Threads |-> IF t = 1 THEN at ELSE "idle"]
       /\ reason = [t \in Threads |->
                      IF t = 1 /\ at = "L_finally" THEN "Stopped" ELSE "none"]
  /\ source_text = [t \in Threads |-> E]
  /\ translated_text = [t \in Threads |-> E]
  /\ check_count = [t \in Threads |-> 0]
  /\ iter = [t \in Threads |-> NoIter]
  /\ obs_run = [t \in Threads |-> 0]
  /\ obs_prev = [t \in Threads |-> E]
  /\ samples = [t \in Threads |-> <<>>]
  /\ stop_seen = [t \in Threads |-> FALSE]
  \* stop_translation has run
  /\ is_running = FALSE
  /\ start_button = "normal"
  /\ stop_button = "disabled"
  /\ status = "stopped"
  /\ stop_requested = TRUE
  \* what the stopped run left behind
  /\ same_source_count \in 0..2
  /\ last_source_text \in {E, TxtA}
  /\ same_source_count > 0 => last_source_text = TxtA
  /\ last_translated_text \in {E, TxtX}
  /\ fgQueue = <<>>
  /\ dispatch_count = 0
  /\ coordinates = AllSet
  /\ copy_method = 0
  /\ use_scroll_gesture = FALSE
  /\ skip_translated = TRUE
  /\ check_translation_consistency = TRUE
  /\ check_timeout_count = 1
  /\ convert_newlines = FALSE
  /\ poedit_texts = {TxtA}
  /\ service_texts = {TxtX}
  /\ scripted = FALSE
  /\ record = FALSE
  /\ faulty = FALSE
  /\ timing = DefaultTiming
  /\ config_file = NoConfigFile
  /\ src_feed = <<>>
  /\ clipboard = TxtA

NextStale ==
  \/ StartButton
  \/ FgStop
  \/ \E t \in Threads : Loop_while(t) \/ Loop_source(t) \/ Loop_finally(t)

StaleSpec == InitStale /\ [][NextStale]_vars

\* C29: with no stop triggered after the start of a run and no loop of that
\* run able to end by itself, the run flag of the run is never cleared: the
\* stop_translation that the loop of the earlier run queued on its way out
\* does not end the later run.
C29_StaleStopKeepsRun == [][is_running => is_running']_vars

(***************************************************************************)
(* ExceptSpec: one run in which a statement of the loop outside the        *)
(* helpers' own try blocks may raise; the except clause of                 *)
(* translation_loop catches it.  The foreground and the loop's thread keep *)
(* being scheduled.                                                        *)
(***************************************************************************)
\* the positions of the loop outside wait_for_translation_result
LoopLevel ==
  {"L_while", "L_source", "L_compare", "L_check3", "L_target", "L_dispatch",
   "L_result", "L_paste", "L_next"}

\* except Exception as e: self.log_status(...)
Loop_except(t) ==
  /\ faulty
  /\ pc[t] \in LoopLevel
  /\ Exit(t, "Exception")
  /\ UNCHANGED <<cfgVars, envVars, src_feed, is_running, buttonVars,
                 counterVars, last_translated_text, clipboard, fgQueue,
                 localVars, iter, obs_run, obs_prev, dispatch_count, samples,
                 stop_seen, stop_requested>>

NextExcept ==
  \/ StopButton
  \/ emergency_stop
  \/ FgStop
  \/ \E t \in Threads : translation_loop(t)
  \/ \E t \in Threads : Loop_except(t)

ExceptSpec ==
  /\ InitFault
  /\ [][NextExcept]_vars
  /\ WF_vars(FgStop)
  /\ \A t \in Threads : WF_vars(translation_loop(t))

\* C30: a loop thread ends only through its finally clause, which queues
\* stop_translation for the foreground; no step of the loop writes the run
\* flag; and once a loop is on its way out, whatever ended it, the run state
\* becomes Idle: flag cleared, start button enabled, stop button disabled.
C30_LoopExitLeadsToIdle ==
  /\ [][\A t \in Threads :
          /\ (pc[t] # "idle" /\ pc'[t] = "idle") =>
               /\ pc[t] = "L_finally"
               /\ fgQueue' = Append(fgQueue, "stop")
          /\ (translation_loop(t) \/ Loop_except(t)) =>
               is_running' = is_running
       ]_vars
  /\ \A t \in Threads : (pc[t] = "L_finally") ~> RunIdle

\* the except clause has caught an exception and the flag is still set
C30_Witness ==
  \E t \in Threads :
    /\ pc[t] = "L_finally"
    /\ reason[t] = "Exception"
    /\ is_running

(***************************************************************************)
(* The navigation of an iteration (RunSpec).                               *)
(***************************************************************************)
\* C31: an iteration comes back to the while test only through
\* next_translation_item, called once in it: after a skip, after a failed
\* validation and after a write; an iteration that ends the loop (no source
\* text, the third repeat, the run flag found cleared at one of its checks)
\* has called it not at all.
C31_OneNavigationPerIteration ==
  /\ [](\A t \in Threads : iter[t].nav <= 1)
  /\ [][\A t \in Threads :
          /\ (pc'[t] = "L_while" /\ pc[t] \notin {"L_while", "idle"}) =>
               /\ pc[t] = "L_next"
               /\ iter[t].nav = 0
               /\ iter'[t].nav = 1
          /\ (iter'[t].nav > iter[t].nav) => pc[t] = "L_next"
          /\ (pc[t] = "L_next" /\ pc'[t] # pc[t]) =>
               \/ iter[t].tgt = 1 /\ iter[t].disp = 0 /\ iter[t].write = 0
               \/ iter[t].tgt = 1 /\ iter[t].disp = 1
          /\ (pc'[t] = "L_finally" /\ pc[t] \notin {"L_finally", "L_while"})
               => iter[t].nav = 0 /\ iter'[t].nav = 0
       ]_vars

\* an iteration that wrote its translation is back at the while test with
\* one navigation made
C31_Witness ==
  \E t \in Threads :
    /\ pc[t] = "L_while"
    /\ iter[t] = [tgt |-> 1, disp |-> 1, write |-> 1, nav |-> 1]

(***************************************************************************)
(* RestartSpec: a run started after an earlier run has written a           *)
(* translation.  The editor shows TxtA and then TxtB; the service window   *)
(* may still show the translation of the earlier run.  The stop callback   *)
(* of the new run is left in the queue, so there is one new run.           *)
(***************************************************************************)
\* the fields the editor shows to the new run
RestartFeed == <<TxtA, TxtB>>

InitRestart ==
  /\ InitThreads
  /\ InitHook
  /\ InitListening
  \* stop_translation has run
  /\ is_running = FALSE
  /\ start_button = "normal"
  /\ stop_button = "disabled"
  /\ status = "stopped"
  /\ stop_requested = TRUE
  \* what the earlier run left behind
  /\ same_source_count \in 0..2
  /\ last_source_text \in {E, TxtA}
  /\ same_source_count > 0 => last_source_text = TxtA
  /\ last_translated_text = TxtX
  /\ fgQueue = <<>>
  /\ dispatch_count = 0
  /\ coordinates = AllSet
  /\ copy_method = 0
  /\ use_scroll_gesture = FALSE
  /\ skip_translated \in BOOLEAN
  /\ check_translation_consistency = TRUE
  /\ check_timeout_count = 1
  /\ convert_newlines = FALSE
  /\ poedit_texts = {E}
  /\ service_texts = {TxtX, TxtY}
  /\ scripted = FALSE
  /\ record = TRUE
  /\ faulty = FALSE
  /\ timing = DefaultTiming
  /\ config_file = NoConfigFile
  /\ src_feed = RestartFeed
  /\ clipboard \in {E, TxtX}

NextRestart ==
  \/ StartButton
  \/ emergency_stop
  \/ \E t \in Threads : translation_loop(t)

RestartSpec == InitRestart /\ [][NextRestart]_vars

\* the loop of the new run is in its first field: the first text has been
\* read, the loop has not come back to its while test
FirstField(t) ==
  /\ pc[t] \notin {"idle", "L_while", "L_source", "L_finally"}
  /\ src_feed = Tail(RestartFeed)

\* a step of start_translation that created the loop thread
C32_Started == Cardinality(ActiveThreads') > Cardinality(ActiveThreads)

\* C32: a start that passes the coordinate test sets same_source_count to 0
\* and last_source_text to "" and leaves last_translated_text as it is;
\* only the write of a translation changes last_translated_text, so in the
\* first field of the new run, until that write, it is the translation the
\* earlier run wrote last, and a sample equal to it is not taken while the
\* budget lasts.
C32_StartKeepsLastTranslation ==
  /\ [](\A t \in Threads :
          (FirstField(t) /\ iter[t].write = 0) => last_translated_text = TxtX)
  /\ [][ /\ C32_Started =>
              /\ same_source_count' = 0
              /\ last_source_text' = E
              /\ last_translated_text' = last_translated_text
         /\ last_translated_text' # last_translated_text =>
              \E t \in Threads :
                /\ pc[t] = "L_paste"
                /\ last_translated_text' = translated_text[t]
         /\ \A t \in Threads :
              (/\ FirstField(t)
               /\ pc[t] = "V_poll"
               /\ pc'[t] # "V_poll"
               /\ check_count[t] < check_timeout_count
               /\ is_running
               /\ translated_text[t] = TxtX) => pc'[t] = "V_retry"
       ]_vars

\* the first sample of the first field of the new run is the translation of
\* the earlier run, and the validator has gone on to copy again
C32_Witness ==
  \E t \in Threads :
    /\ FirstField(t)
    /\ pc[t] = "V_retry"
    /\ source_text[t] = TxtA
    /\ translated_text[t] = TxtX
    /\ last_translated_text = TxtX
    /\ same_source_count = 0
    /\ last_source_text = TxtA

(***************************************************************************)
(* The clipboard between the two reads of an iteration (Spec).             *)
(***************************************************************************)
\* C33: from the read of the source field to the read of the target field
\* the loop writes nothing to the clipboard, so the clipboard still holds
\* the source text; a copy in the target field that leaves the clipboard as
\* it is gives a target text equal to the source text, and with
\* skip_translated on the field is passed over with no dispatch.
C33_UnchangedCopyReadsSource ==
  /\ [](\A t \in Threads :
          pc[t] \in {"L_compare", "L_check3", "L_target"} =>
            /\ source_text[t] # E
            /\ get_clipboard_content(clipboard) = source_text[t])
  /\ [][\A t \in Threads :
          (/\ pc[t] = "L_target"
           /\ pc'[t] \notin {"L_target", "L_finally"}
           /\ clipboard' = clipboard) =>
             /\ get_clipboard_content(clipboard') = source_text[t]
             /\ iter'[t].tgt = 1
             /\ iter'[t].disp = 0
             /\ skip_translated => pc'[t] = "L_next"
             /\ ~skip_translated => pc'[t] = "L_dispatch"
       ]_vars

(***************************************************************************)
(* CaptureSpec: the start hotkey is rebound again and again, by key events *)
(* with every set of held modifiers and with key names in lower case, in   *)
(* upper case and with the name '+'; each captured combination is parsed   *)
(* by setup_hotkey_listener and the events are delivered to its handler.   *)
(* No run is started: the start requests stay in the queue.                *)
(***************************************************************************)
CaptureKeyNames == {"s", "A", "+"}

CaptureEvents ==
  [type : {"down"}, name : CaptureKeyNames, held : SUBSET Modifiers]

capture_event == \E ev \in CaptureEvents : Deliver(ev)

NextCapture ==
  \/ start_key_binding("start")
  \/ listen_for_key
  \/ setup_hotkey_listener
  \/ capture_event

CaptureSpec == InitBind /\ [][NextCapture]_vars

\* C34: the combination on_key_event builds from the held modifiers M and
\* the key name k is parsed by setup_hotkey_listener into the modifier set M
\* and the main key k, and once the handler is installed on it the captured
\* key event is a start request; for every M and every k, the names '+' and
\* 'A' included.
C34_CaptureParseRoundTrip ==
  captured.start # NoEvent =>
    /\ start_hotkey = hotkey_str(captured.start)
    /\ hotkey_modifiers(start_hotkey) = captured.start.held
    /\ hotkey_main_key(start_hotkey) = captured.start.name
    /\ (hotkey_hook /\ ~is_binding_key /\ start_combo = start_hotkey) =>
         HandlerCall(captured.start) = "start"
=============================================================================
